---- MODULE Spec2Model ----
(***************************************************************************)
(* Model of the digital-coach turn pipeline (netlify/functions/chat_v2.ts, *)
(* latest revision, with lib/agents/router*, lib/sanitize, lib/retrieve).  *)
(*                                                                         *)
(* Representation.  A user text is a sequence of lower-case word tokens;   *)
(* a regex family of the form /\b(w1|w2|...)\b/ is the predicate "one of   *)
(* these words/phrases occurs", /\bA\b.*\bB\b/ is "an A-word occurs before *)
(* a B-word".  A generated or rendered text is a sequence of lines; a line *)
(* is a record of the features the sanitizer's regexes look at.            *)
(***************************************************************************)
EXTENDS Integers, Sequences, FiniteSets, TLC

VARIABLES
  mem,        \* session_memory table: session_id -> MemRow
  cookie,     \* browser cookie jar: value of last_reco_slug
  toolCache,  \* TOOL_CACHE of chat_v2.ts: [valid, data]
  turn,       \* number of turns handled so far
  resp,       \* the response of the last turn, with its trace
  refineLog,  \* history: params before the current run of refine turns, and their deltas
  client,     \* the client sending the requests: the ids it sends along
  creply,     \* composer revision of the handler: the response of the last request
  probe,      \* a library function under test: its inputs and its result
  inflight,   \* the request being handled and the collaborator calls it still awaits
  reg         \* TOOL_CACHE under concurrent getToolRegistryCached calls, with a clock

vars == <<mem, cookie, toolCache, turn, resp, refineLog, client, creply, probe, inflight, reg>>

\* the policy handler's own state, and the rest
handlerVars == <<mem, cookie, toolCache, turn, resp, refineLog, client>>
otherVars == <<creply, probe, inflight, reg>>

None == "none"

\* a field the request does not carry
Undefined == "undefined"

\* ---------------------------------------------------------------------
\* Bounds
\* ---------------------------------------------------------------------
MaxTurns == 3

\* ---------------------------------------------------------------------
\* Token helpers (regex families over word tokens)
\* ---------------------------------------------------------------------
Max(a, b) == IF a >= b THEN a ELSE b

TokenSet(s) == { s[i] : i \in DOMAIN s }

HasWord(text, W) == \E i \in DOMAIN text : text[i] \in W

HasPhrase(text, p) ==
  \E i \in 1..(Len(text) - Len(p) + 1) : SubSeq(text, i, i + Len(p) - 1) = p

HasAnyPhrase(text, P) == \E p \in P : HasPhrase(text, p)

\* /\bA\b.*\bB\b/ : an A-word, later a B-word
HasOrdered(text, A, B) ==
  \E i, j \in DOMAIN text : i < j /\ text[i] \in A /\ text[j] \in B

\* ---------------------------------------------------------------------
\* chat_v2.ts: text utils
\* ---------------------------------------------------------------------
\* lower-case, drop the word "tool", collapse non-alphanumerics
norm(s) == SelectSeq(s, LAMBDA w : w # "tool")

\* overlap / max(|A|,|B|), as a fraction [num, den]; 0 when either side is empty
tokenOverlap(a, b) ==
  LET A == TokenSet(norm(a))
      B == TokenSet(norm(b))
  IN  IF A = {} \/ B = {} THEN [num |-> 0, den |-> 1]
      ELSE [num |-> Cardinality(A \cap B),
            den |-> Max(Cardinality(A), Cardinality(B))]

\* ---------------------------------------------------------------------
\* chat_v2.ts: PlanParams
\* ---------------------------------------------------------------------
ParamFields == {"cadence", "due_day", "due_time", "channel", "anonymous", "reminders"}

NoParams == [f \in ParamFields |-> None]

DayWords == {"monday", "tuesday", "wednesday", "thursday", "friday", "saturday", "sunday"}
TimeWords == {"2pm", "3pm"}

parseCadence(t) ==
  IF HasWord(t, {"biweekly"}) \/ HasPhrase(t, <<"bi", "weekly">>) THEN "biweekly"
  ELSE IF HasWord(t, {"monthly"}) THEN "monthly"
  ELSE IF HasWord(t, {"daily"}) THEN "daily"
  ELSE IF HasWord(t, {"weekly"}) THEN "weekly"
  ELSE None

\* first token that is a weekday name, capitalised by the code
parseDay(t) ==
  IF HasWord(t, DayWords)
  THEN LET i == CHOOSE k \in DOMAIN t :
                  t[k] \in DayWords /\ \A m \in 1..(k - 1) : t[m] \notin DayWords
       IN  t[i]
  ELSE None

parseTime(t) ==
  IF HasWord(t, TimeWords)
  THEN LET i == CHOOSE k \in DOMAIN t :
                  t[k] \in TimeWords /\ \A m \in 1..(k - 1) : t[m] \notin TimeWords
       IN  t[i]
  ELSE None

parseChannel(t) ==
  IF HasWord(t, {"slack"}) THEN "slack"
  ELSE IF HasWord(t, {"email"}) THEN "email"
  ELSE IF HasWord(t, {"app"}) \/ HasPhrase(t, <<"in", "app">>) THEN "app"
  ELSE None

parseAnonymous(t) ==
  IF HasWord(t, {"anonymous", "anonymously", "anonym"}) THEN "true" ELSE None

parseReminders(t) ==
  IF HasAnyPhrase(t, {<<"no", "nudge">>, <<"no", "nudges">>, <<"no", "reminder">>, <<"no", "reminders">>})
    THEN "0"
  ELSE IF HasAnyPhrase(t, {<<"one", "nudge">>, <<"one", "reminder">>}) THEN "1"
  ELSE IF HasAnyPhrase(t, {<<"two", "nudges">>, <<"two", "reminders">>,
                           <<"2", "nudges">>, <<"2", "reminders">>}) THEN "2"
  ELSE None

\* the partial PlanParams object; a field the text does not mention is None
parseRefineFields(t) ==
  [cadence |-> parseCadence(t), due_day |-> parseDay(t), due_time |-> parseTime(t),
   channel |-> parseChannel(t), anonymous |-> parseAnonymous(t),
   reminders |-> parseReminders(t)]

\* Object.keys(p).length ? p : null
parseRefineParams(t) == parseRefineFields(t)

HasParams(p) == \E f \in ParamFields : p[f] # None

mergeParamsLeft(a, b) == [f \in ParamFields |-> IF a[f] # None THEN a[f] ELSE b[f]]

\* { ...a, ...b }
mergeParams(a, b) == [f \in ParamFields |-> IF b[f] # None THEN b[f] ELSE a[f]]

\* ---------------------------------------------------------------------
\* chat_v2.ts: follow-up classifier
\* ---------------------------------------------------------------------
AffirmPhrases ==
  {<<"yes">>, <<"yep">>, <<"yeah">>, <<"do", "it">>, <<"sounds", "good">>,
   <<"lets", "go">>, <<"lets", "do", "it">>, <<"please">>, <<"ok">>, <<"okay">>,
   <<"go", "ahead">>, <<"run", "it">>, <<"ship", "it">>}

NegativePhrases ==
  {<<"no">>, <<"nah">>, <<"not", "now">>, <<"pass">>, <<"skip">>, <<"dont">>,
   <<"another", "way">>, <<"different", "approach">>, <<"prefer", "not">>}

Pronouns == {<<"it">>, <<"this">>, <<"that">>, <<"this", "tool">>, <<"that", "tool">>}

\* what (is|does) <pron> [do] | how (does|would) <pron> work | explain | more detail | tell me more | why
InfoPhrases ==
  { <<"what", x>> \o p : x \in {"is", "does"}, p \in Pronouns }
  \cup { <<"how", x>> \o p \o <<"work">> : x \in {"does", "would"}, p \in Pronouns }
  \cup {<<"explain">>, <<"more", "detail">>, <<"tell", "me", "more">>, <<"why">>}

ComparePhrases ==
  {<<"other", "options">>, <<"other", "ways">>, <<"alternative">>, <<"alternatives">>,
   <<"compare">>, <<"vs">>, <<"versus">>}

isAffirmativeFollowUp(text) == HasAnyPhrase(text, AffirmPhrases)
isNegativeFollowUp(text) == HasAnyPhrase(text, NegativePhrases)
isInfoFollowUp(text) == HasAnyPhrase(text, InfoPhrases)
isCompareFollowUp(text) == HasAnyPhrase(text, ComparePhrases)

classifyRefineFirst(text) ==
  IF isAffirmativeFollowUp(text) THEN "accept"
  ELSE IF isNegativeFollowUp(text) THEN "reject"
  ELSE IF HasParams(parseRefineParams(text)) THEN "refine"
  ELSE IF isInfoFollowUp(text) THEN "askinfo"
  ELSE IF isCompareFollowUp(text) THEN "compare"
  ELSE "none"

classifyFollowUp(text) ==
  IF isAffirmativeFollowUp(text) THEN "accept"
  ELSE IF isNegativeFollowUp(text) THEN "reject"
  ELSE IF isInfoFollowUp(text) THEN "askinfo"
  ELSE IF isCompareFollowUp(text) THEN "compare"
  ELSE IF HasParams(parseRefineParams(text)) THEN "refine"
  ELSE "none"

\* ---------------------------------------------------------------------
\* Tool registry (rows of tool_docs after normalizeToolRow)
\* ---------------------------------------------------------------------
\* keywords are whole words here: no keyword is a substring of another
\* vocabulary word, so lower.includes(k) is "the word occurs".
\* A pattern is a literal phrase; BadPattern is a malformed regex string.
BadPattern == <<"(">>

WeeklyReport ==
  [slug |-> "weekly-report", title |-> <<"weekly", "report">>,
   summary |-> <<"collect", "updates">>, why |-> <<>>, outcome |-> <<>>, content |-> <<>>,
   keywords |-> {"report"}, patterns |-> {BadPattern}, enabled |-> TRUE]

DailyChecklist ==
  [slug |-> "daily-checklist", title |-> <<"daily", "checklist">>,
   summary |-> <<>>, why |-> <<>>, outcome |-> <<"done">>, content |-> <<>>,
   keywords |-> {"checklist"}, patterns |-> {<<"checklist">>}, enabled |-> TRUE]

\* rows in storage order
Registry == <<WeeklyReport, DailyChecklist>>

\* "no tool" (null), same shape as a tool row
NoTool ==
  [slug |-> None, title |-> <<>>, summary |-> <<>>, why |-> <<>>, outcome |-> <<>>,
   content |-> <<>>, keywords |-> {}, patterns |-> {}, enabled |-> FALSE]

ToolSlugs(tools) == { tools[i].slug : i \in DOMAIN tools }

\* tools.find(pred): first of the rows satisfying pred (hits, in list order), else null
FindFirst(hits) == IF hits = <<>> THEN NoTool ELSE Head(hits)

\* getToolRegistry: rows normalised, disabled rows dropped; a failed read gives []
getToolRegistry(readOk) ==
  IF readOk THEN SelectSeq(Registry, LAMBDA t : t.enabled) ELSE <<>>

\* ---------------------------------------------------------------------
\* matchToolByIntent (chat_v2.ts): scores as fractions [num, den]
\* ---------------------------------------------------------------------
hasWeeklyReport(text) == HasOrdered(text, {"weekly"}, {"report", "update", "updates"})

\* new RegExp(rx, "i").test(text) inside try/catch: malformed -> no hit
patternHit(rx, text) == rx # BadPattern /\ HasPhrase(text, rx)

IntentScoreFloor == 1

intentScore(text, t) ==
  LET haystack == norm(t.title) \o norm(t.summary) \o norm(t.why) \o norm(t.outcome) \o norm(t.content)
      A == TokenSet(norm(text))
      B == TokenSet(haystack)
      patternHits == Cardinality({ rx \in t.patterns : patternHit(rx, text) })
      kwHits == Cardinality({ k \in t.keywords : HasWord(text, {k}) })
      M == Max(1, Max(Cardinality(A), Cardinality(B)))
      overlap == IF B = {} THEN 0 ELSE Cardinality(A \cap B)
      boost == IF hasWeeklyReport(text) /\ hasWeeklyReport(t.title) THEN 3 ELSE 0
  IN  [num |-> (patternHits * 2 + kwHits + boost) * M + 3 * overlap, den |-> M]

FracLess(a, b) == a.num * b.den < b.num * a.den

\* index of the best tool among the first n: strictly greater replaces, ties keep the first
RECURSIVE bestIntentIdx(_, _, _)
bestIntentIdx(text, tools, n) ==
  IF n = 0 THEN 0
  ELSE LET prev == bestIntentIdx(text, tools, n - 1)
       IN  IF tools[n].title = <<>> THEN prev
           ELSE IF prev = 0 THEN n
           ELSE IF FracLess(intentScore(text, tools[prev]), intentScore(text, tools[n])) THEN n
           ELSE prev

matchToolByIntentLast(text, tools) ==
  LET top == { i \in DOMAIN tools :
                 \A j \in DOMAIN tools :
                   ~FracLess(intentScore(text, tools[i]), intentScore(text, tools[j])) }
      b == CHOOSE i \in top : \A j \in top : j <= i
  IN  IF top = {} THEN NoTool
      ELSE IF FracLess(intentScore(text, tools[b]), [num |-> IntentScoreFloor, den |-> 1])
           THEN NoTool
      ELSE tools[b]

matchToolByIntent(text, tools) ==
  LET b == bestIntentIdx(text, tools, Len(tools))
  IN  IF b = 0 THEN NoTool
      ELSE IF intentScore(text, tools[b]).num < IntentScoreFloor * intentScore(text, tools[b]).den
           THEN NoTool
      ELSE tools[b]

\* ---------------------------------------------------------------------
\* Lines of text.  k: kind; hint: the line has a hint phrase of
\* isExternalToolLine; brands: the brand-like candidates extractBrandCandidates
\* finds (as token sequences); v: payload words; n: the number of a list item.
\* ---------------------------------------------------------------------
Line(k, hint, brands, v, n) == [k |-> k, hint |-> hint, brands |-> brands, v |-> v, n |-> n]

Blank == Line("blank", FALSE, {}, <<>>, 0)
NumLine(n) == Line("num", FALSE, {}, <<>>, n)
\* words of the hint regexes of isExternalToolLine
HintWords ==
  {"use", "via", "choose", "pick", "select", "setup", "install", "integrate", "connect",
   "leverage", "with", "form", "tool", "app", "bot", "platform", "software", "plugin",
   "standup", "report", "update", "updates", "or", "alternatively"}

\* "Try: <title>" written by anyone: "Try" itself is a Capitalized candidate
TryLine(title) == Line("try", HasWord(title, HintWords), {<<"try">>, title}, title, 0)
\* a line rendered by the handler from a template
Rendered(k, v) == Line(k, FALSE, {}, v, 0)

isBlank(ln) == ln.k = "blank"
\* numRe: "3. rest" (kind "num") or another spelling of the marker, such as
\* an indented "  3) rest" (kind "numalt")
isNumbered(ln) == ln.k \in {"num", "numalt"}
isTry(ln) == ln.k = "try"

\* .replace(/\n{3,}/g, "\n\n"): a run of empty lines becomes one empty line
RECURSIVE collapseBlank(_)
collapseBlank(text) ==
  IF Len(text) <= 1 THEN text
  ELSE IF isBlank(text[1]) /\ isBlank(text[2]) THEN collapseBlank(Tail(text))
  ELSE <<text[1]>> \o collapseBlank(Tail(text))

\* .trim(): leading and trailing empty lines go
RECURSIVE trimLeft(_)
trimLeft(text) ==
  IF text # <<>> /\ isBlank(text[1]) THEN trimLeft(Tail(text)) ELSE text

RECURSIVE trimRight(_)
trimRight(text) ==
  IF text # <<>> /\ isBlank(text[Len(text)])
  THEN trimRight(SubSeq(text, 1, Len(text) - 1)) ELSE text

trim(text) == trimRight(trimLeft(text))

\* ---------------------------------------------------------------------
\* chat_v2.ts: rendering
\* ---------------------------------------------------------------------
formatTryLine(t) == TryLine(t.title)

Capitalize(w) == <<"cap", w>>

renderPlanForTool(tool, p) ==
  LET outcome == IF tool.outcome # <<>> THEN tool.outcome
                 ELSE <<"reliable", "weekly", "signal", "without", "manual", "chasing">>
      cadence == IF p.cadence # None THEN p.cadence ELSE "weekly"
      day == IF p.due_day # None THEN p.due_day
             ELSE IF cadence = "weekly" THEN "Friday" ELSE None
      time == IF p.due_time # None THEN p.due_time ELSE "3pm"
      channel == IF p.channel # None THEN Capitalize(p.channel) ELSE <<"App">>
      rem == IF p.reminders # None THEN p.reminders ELSE "1"
      anon == IF p.anonymous # None THEN "anonymous collection enabled" ELSE ""
      rhythm == IF cadence = "weekly" THEN <<"Every week">>
                ELSE IF cadence = "biweekly" THEN <<"Every other week">>
                ELSE Capitalize(cadence)
  IN  << Rendered("plan", <<"head">> \o tool.title),
         Blank,
         Rendered("plan", <<"rhythm">> \o rhythm \o <<day, time>>),
         Rendered("plan", <<"template">>),
         Rendered("plan", <<"nudges", rem, IF rem = "1" THEN "reminder" ELSE "reminders">> \o channel),
         Rendered("plan", <<"habit", anon>>),
         Rendered("plan", <<"close">>),
         Blank,
         Rendered("plan", <<"result">> \o outcome) >>

\* the askinfo blurb
renderBlurb(chosen) ==
  << Rendered("blurb", <<"what">> \o chosen.title),
     Rendered("blurb", <<"purpose">> \o (IF chosen.summary # <<>> THEN chosen.summary ELSE <<"default">>)),
     Rendered("blurb", <<"why">> \o (IF chosen.why # <<>> THEN chosen.why ELSE <<"default">>)),
     Rendered("blurb", <<"outcome">> \o (IF chosen.outcome # <<>> THEN chosen.outcome ELSE <<"default">>)),
     Blank,
     Rendered("blurb", <<"proceed">>) >>

\* ---------------------------------------------------------------------
\* lib/sanitize.ts
\* ---------------------------------------------------------------------
buildAllowlist(tools) ==
  { norm(tools[i].title) : i \in { j \in DOMAIN tools : tools[j].title # <<>> } }

isAllowedTitle(candidate, allow) ==
  LET nc == norm(candidate)
      ca == TokenSet(nc)
  IN  /\ nc # <<>>
      /\ \/ nc \in allow
         \/ \E a \in allow :
              LET aa == TokenSet(a)
              IN  10 * Cardinality(ca \cap aa)
                    >= 7 * Max(1, Max(Cardinality(aa), Cardinality(ca)))

stripAllTryLines(text) ==
  trim(collapseBlank(SelectSeq(text, LAMBDA ln : ~isTry(ln))))

isExternalToolLine(ln, allow) ==
  /\ ln.hint
  /\ ln.brands # {}
  /\ \E b \in ln.brands : ~isAllowedTitle(b, allow)

removeExternalToolMentionsNone(text, allow) ==
  IF text = <<>> THEN <<>> ELSE trim(collapseBlank(text))

removeExternalToolMentions(text, allow) ==
  IF text = <<>> THEN <<>>
  ELSE trim(collapseBlank(SelectSeq(text, LAMBDA ln : ~isExternalToolLine(ln, allow))))

\* the next non-blank line after position i is a numbered item
nextNonBlankNumbered(lines, i) ==
  \E k \in (i + 1)..Len(lines) :
     /\ isNumbered(lines[k])
     /\ \A m \in (i + 1)..(k - 1) : isBlank(lines[m])

RECURSIVE renumberFrom(_, _, _, _)
renumberFrom(lines, i, inBlock, n) ==
  IF i > Len(lines) THEN <<>>
  ELSE LET ln == lines[i]
       IN  IF ln.k = "fence" THEN <<ln>> \o renumberFrom(lines, i + 1, FALSE, 0)
           ELSE IF isNumbered(ln)
             THEN LET m == IF inBlock THEN n + 1 ELSE 1
                  IN  <<[ln EXCEPT !.n = m]>> \o renumberFrom(lines, i + 1, TRUE, m)
           ELSE IF inBlock /\ isBlank(ln) /\ nextNonBlankNumbered(lines, i)
             THEN <<ln>> \o renumberFrom(lines, i + 1, inBlock, n)
           ELSE <<ln>> \o renumberFrom(lines, i + 1, FALSE, 0)

renumberOrderedListsShift(text) ==
  [i \in DOMAIN text |-> IF isNumbered(text[i]) THEN [text[i] EXCEPT !.n = @ + 1] ELSE text[i]]

renumberOrderedLists(text) == renumberFrom(text, 1, FALSE, 0)

\* the earlier revision (lib/sanitize.ts): the marker is rewritten as "n. ",
\* and only a blank line, a bullet or a heading ends a list
resetsList(ln) == isBlank(ln) \/ ln.k \in {"bullet", "heading"}

RECURSIVE renumberEarlyFrom(_, _, _, _)
renumberEarlyFrom(lines, i, inBlock, n) ==
  IF i > Len(lines) THEN <<>>
  ELSE LET ln == lines[i]
       IN  IF isNumbered(ln)
             THEN LET m == IF inBlock THEN n + 1 ELSE 1
                  IN  <<[ln EXCEPT !.k = "num", !.n = m]>> \o renumberEarlyFrom(lines, i + 1, TRUE, m)
           ELSE IF resetsList(ln) THEN <<ln>> \o renumberEarlyFrom(lines, i + 1, FALSE, 0)
           ELSE <<ln>> \o renumberEarlyFrom(lines, i + 1, inBlock, n)

renumberOrderedListsEarly(text) == renumberEarlyFrom(text, 1, FALSE, 0)

sanitizeNeutralGuidance(text, allow) ==
  renumberOrderedLists(removeExternalToolMentions(stripAllTryLines(text), allow))

\* ---------------------------------------------------------------------
\* chat_v2.ts: detectToolFromAssistant
\* ---------------------------------------------------------------------
\* first line matching /^\s*Try\s*:\s*(.+)$/im : its captured candidate
firstTryCandidate(text) ==
  IF \E i \in DOMAIN text : isTry(text[i])
  THEN text[CHOOSE i \in DOMAIN text :
              isTry(text[i]) /\ \A j \in 1..(i - 1) : ~isTry(text[j])].v
  ELSE <<>>

detectScore(t, candidate) ==
  IF norm(t.title) = norm(candidate) THEN [num |-> 1, den |-> 1]
  ELSE tokenOverlap(t.title, candidate)

RECURSIVE bestDetectIdx(_, _, _)
bestDetectIdx(candidate, tools, n) ==
  IF n = 0 THEN 0
  ELSE LET prev == bestDetectIdx(candidate, tools, n - 1)
       IN  IF prev = 0 THEN n
           ELSE IF FracLess(detectScore(tools[prev], candidate), detectScore(tools[n], candidate))
                THEN n
           ELSE prev

detectToolFromAssistant(assistantText, tools) ==
  LET candidate == firstTryCandidate(assistantText)
      b == bestDetectIdx(candidate, tools, Len(tools))
  IN  IF candidate = <<>> \/ b = 0 THEN NoTool
      ELSE IF 10 * detectScore(tools[b], candidate).num >= 7 * detectScore(tools[b], candidate).den
           THEN tools[b]
      ELSE NoTool

\* ---------------------------------------------------------------------
\* lib/agents/router_v2.ts: the LLM scorer
\* ---------------------------------------------------------------------
isMediaAsk(t) ==
  \/ HasWord(t, {"book", "books", "author", "read", "recommend", "recommendation",
                 "recommendations", "recommends", "podcast", "article", "course"})
  \/ HasAnyPhrase(t, {<<"reading", "list">>, <<"recommend", "me">>})

\* tool_intent_score in hundredths; ScoreAbsent is "no number in the JSON"
ScoreAbsent == 0 - 1
ScorerThreshold == 65

ScorerNull == [ok |-> FALSE, route |-> None, best_tool_slug |-> None, tool_intent_score |-> ScoreAbsent]

\* scoreRouteLLM(params): hasKey is "OPENAI_API_KEY is set"; llm is the completion outcome.
\* A failed call (.catch(() => null)) or empty content parses "{}".
scoreRouteLLM(hasKey, userText, llm) ==
  IF ~hasKey THEN ScorerNull
  ELSE IF isMediaAsk(userText)
    THEN [ok |-> TRUE, route |-> "recs", best_tool_slug |-> None, tool_intent_score |-> ScoreAbsent]
  ELSE IF ~llm.ok THEN ScorerNull
  ELSE [ok |-> TRUE,
        route |-> IF llm.route = None THEN "coach" ELSE llm.route,
        best_tool_slug |-> llm.best_tool_slug,
        tool_intent_score |-> llm.tool_intent_score]

\* the scorer consults the generation backend only past the key and media checks
scorerCallsLLM(hasKey, userText) == hasKey /\ ~isMediaAsk(userText)

\* ---------------------------------------------------------------------
\* lib/tools.ts (used by lib/agents/router.ts)
\* ---------------------------------------------------------------------
\* overlap / max(1, |na|) >= 0.6, exact normalised match returns at once
findByTitleScore(target, t) ==
  [num |-> Cardinality(TokenSet(norm(target)) \cap TokenSet(norm(t.title))),
   den |-> Max(1, Cardinality(TokenSet(norm(t.title))))]

RECURSIVE bestTitleIdx(_, _, _)
bestTitleIdx(target, tools, n) ==
  IF n = 0 THEN 0
  ELSE LET prev == bestTitleIdx(target, tools, n - 1)
           s == findByTitleScore(target, tools[n])
       IN  IF s.num > 0 /\ (prev = 0 \/ FracLess(findByTitleScore(target, tools[prev]), s))
           THEN n ELSE prev

findByTitle(title, tools) ==
  LET exact == FindFirst(SelectSeq(tools, LAMBDA t : norm(t.title) = norm(title)))
      b == bestTitleIdx(title, tools, Len(tools))
  IN  IF exact.slug # None THEN exact
      ELSE IF b # 0 /\ 10 * findByTitleScore(title, tools[b]).num
                         >= 6 * findByTitleScore(title, tools[b]).den
           THEN tools[b]
      ELSE NoTool

libDetectToolFromAssistant(assistantText, tools) ==
  LET title == firstTryCandidate(assistantText)
  IN  IF title = <<>> THEN NoTool ELSE findByTitle(title, tools)

\* keywords shorter than 4 characters
ShortKeywords == {"ok", "app"}

libKeywordOverlap(text, t) ==
  Cardinality({ k \in t.keywords : k \notin ShortKeywords /\ HasWord(text, {k}) })

RECURSIVE bestKeywordIdx(_, _, _)
bestKeywordIdx(text, tools, n) ==
  IF n = 0 THEN 0
  ELSE LET prev == bestKeywordIdx(text, tools, n - 1)
           best == IF prev = 0 THEN 0 ELSE libKeywordOverlap(text, tools[prev])
       IN  IF tools[n].keywords # {} /\ libKeywordOverlap(text, tools[n]) > best
           THEN n ELSE prev

libMatchToolByIntent(text, tools) ==
  LET byPattern == FindFirst(SelectSeq(tools, LAMBDA t : \E p \in t.patterns : patternHit(p, text)))
      b == bestKeywordIdx(text, tools, Len(tools))
  IN  IF byPattern.slug # None THEN byPattern
      ELSE IF b # 0 /\ libKeywordOverlap(text, tools[b]) >= 2 THEN tools[b]
      ELSE NoTool

\* ---------------------------------------------------------------------
\* lib/agents/router: the three revisions of route()
\* ---------------------------------------------------------------------
\* a decision, with the collaborator calls the router made; threw: route() raised
Decision(route, count, slug, impl, calls) ==
  [route |-> route, count |-> count, best_tool_slug |-> slug, impl |-> impl,
   calls |-> calls, threw |-> FALSE]

RouteThrew(calls) ==
  [route |-> None, count |-> 0, best_tool_slug |-> None, impl |-> None,
   calls |-> calls, threw |-> TRUE]

\* env: the outcomes of the collaborators during one turn (see Envs):
\* readOk: the tool_docs read succeeds; spans: number of spans retrieval finds,
\* SpansFail when it raises; hasKey, llm: as for scoreRouteLLM
SpansFail == 0 - 1

isAffirmation(s) ==
  HasAnyPhrase(s, {<<"yes">>, <<"yep">>, <<"y">>, <<"sure">>, <<"ok">>, <<"okay">>,
                   <<"please">>, <<"do", "it">>, <<"that", "one">>, <<"sounds", "good">>})

looksLikeToolAsk(s) ==
  HasOrdered(s, {"recommend", "suggest", "which", "what"},
                {"tool", "template", "app", "software", "integration", "feature"})

looksLikeQuestion(s) ==
  HasWord(s, {"what", "how", "which", "when", "why", "compare", "difference", "steps",
              "guide", "best", "elements", "meeting", "meetings", "update", "updates",
              "report", "policy", "process", "template"})

\* lib/agents/router.ts
route(userText, lastAssistant, env) ==
  LET picked == IF libDetectToolFromAssistant(lastAssistant, Registry).slug # None
                THEN libDetectToolFromAssistant(lastAssistant, Registry)
                ELSE libMatchToolByIntent(userText, Registry)
  IN  IF isAffirmation(userText) /\ lastAssistant # <<>> /\ ~env.readOk
        THEN RouteThrew({"registry"})
      ELSE IF isAffirmation(userText) /\ lastAssistant # <<>> /\ picked.slug # None
        THEN Decision("tools", 0, None, None, {"registry"})
      ELSE IF looksLikeToolAsk(userText)
        THEN Decision("tools", 0, None, None, {})
      ELSE IF looksLikeQuestion(userText)
        THEN IF env.spans >= 1
             THEN Decision("qa", env.spans, None, None, {"retrieval"})
             ELSE Decision("coach", 0, None, None, {"retrieval"})
      ELSE Decision("coach", 0, None, None, {})

routerMediaAsk(t) ==
  \/ HasWord(t, {"book", "books", "author", "recommend", "recommendation",
                 "recommendations", "recommends", "podcast", "article", "course", "courses"})
  \/ HasAnyPhrase(t, {<<"reading", "list">>, <<"recommend", "me">>})

\* the qa-first-v2 revision: media guard, then whatever the scorer picks
routeQaFirstV2(userText, lastAssistant, env) ==
  IF routerMediaAsk(userText) THEN Decision("qa", 0, None, "qa-first-v2", {})
  ELSE Decision(IF env.llm.ok /\ env.llm.route # None THEN env.llm.route ELSE "qa",
                0, None, "qa-first-v2", {"generation"})

qaHint(q) ==
  \/ HasWord(q, {"where", "link", "doc", "docs", "document", "documented", "documentation",
                 "policy", "wiki", "confluence", "notion"})
  \/ HasOrdered(q, {"find", "show"}, {"doc", "policy", "guide", "guides", "guideline", "guidelines"})

\* the revision that tries RAG on a QA hint, then the LLM scorer
routeLlmV2(userText, lastAssistant, env) ==
  LET scored == scoreRouteLLM(env.hasKey, userText, env.llm)
      llmCalls == IF scorerCallsLLM(env.hasKey, userText) THEN {"generation"} ELSE {}
      ragCalls == IF qaHint(userText) THEN {"retrieval"} ELSE {}
  IN  IF qaHint(userText) /\ env.spans = SpansFail THEN RouteThrew(ragCalls)
      ELSE IF qaHint(userText) /\ env.spans >= 1
        THEN Decision("qa", env.spans, None, None, ragCalls)
      ELSE IF scored.ok
        THEN Decision(scored.route, 0, scored.best_tool_slug, None, ragCalls \cup llmCalls)
      ELSE Decision("coach", 0, None, None, ragCalls \cup llmCalls)

\* import { route as pickRoute } from "./lib/agents/router": the revision deployed
pickRoute(impl, userText, lastAssistant, env) ==
  IF impl = "router.ts" THEN route(userText, lastAssistant, env)
  ELSE IF impl = "qa-first-v2" THEN routeQaFirstV2(userText, lastAssistant, env)
  ELSE routeLlmV2(userText, lastAssistant, env)

\* ---------------------------------------------------------------------
\* Inputs of a turn
\* ---------------------------------------------------------------------
\* the user texts tried, as word tokens
UserTexts ==
  { <<>>,
    <<"yes">>, <<"no">>, <<"why">>, <<"compare">>, <<"hello">>,
    <<"monthly">>, <<"weekly", "email">>, <<"why", "monthly">>,
    <<"weekly", "report">>, <<"how", "report">>,
    <<"book", "checklist">>, <<"recommend", "book", "app">>,
    <<"where", "policy">> }

\* lines a generation agent may write
Neutral == Line("text", FALSE, {}, <<"advice">>, 0)
ExtLine == Line("text", TRUE, {<<"asana">>}, <<"use", "asana">>, 0)
BrandOnly == Line("text", FALSE, {<<"asana">>}, <<"asana", "is", "great">>, 0)
OwnLine == Line("text", TRUE, {<<"weekly", "report">>}, <<"use", "weekly", "report">>, 0)
ExternalTitle == <<"random", "external", "tool">>

LlmSays(rt, slug, score) ==
  [ok |-> TRUE, route |-> rt, best_tool_slug |-> slug, tool_intent_score |-> score]

\* the collaborators' outcomes during one turn:
\* impl: the router revision deployed; readOk: the tool_docs read succeeds;
\* spans: what the router's retrieval finds; hasKey: OPENAI_API_KEY is set;
\* llm: the scorer completion; content: the agent completion; agentOk: the
\* agent's calls (grounding retrieval, completion) do not raise; ground: the
\* spans the coach path's first grounding retrieval finds
Env(impl, readOk, spans, hasKey, llm, content, agentOk, ground) ==
  [impl |-> impl, readOk |-> readOk, spans |-> spans, hasKey |-> hasKey, llm |-> llm,
   content |-> content, agentOk |-> agentOk, ground |-> ground]

Envs ==
  { Env("router.ts", TRUE, 1, TRUE, LlmSays("tools", "ghost-tool", 30),
        <<NumLine(3), ExtLine, Blank, Blank, NumLine(7), OwnLine, BrandOnly>>, TRUE, 2),
    Env("llm-v2", TRUE, 1, TRUE, LlmSays("qa", None, 70),
        <<TryLine(ExternalTitle), Neutral, TryLine(WeeklyReport.title)>>, TRUE, 0),
    Env("llm-v2", TRUE, 0, TRUE, LlmSays("tools", "weekly-report", 70),
        <<TryLine(ExternalTitle), ExtLine>>, TRUE, 0),
    Env("qa-first-v2", TRUE, 1, TRUE, LlmSays("coach", None, 70),
        <<Neutral, TryLine(DailyChecklist.title)>>, TRUE, 1),
    Env("router.ts", FALSE, SpansFail, FALSE, ScorerNull, <<>>, TRUE, 0),
    Env("llm-v2", TRUE, SpansFail, TRUE, LlmSays(None, None, ScoreAbsent), <<Neutral>>, FALSE, 0),
    Env("qa-first-v2", TRUE, 0, TRUE, LlmSays("tools", "ghost-tool", 70), <<Neutral>>, TRUE, 0) }

\* classifyFollowUp and parseRefineParams over the texts tried
followOf == [t \in UserTexts |-> classifyFollowUp(t)]
deltaOf == [t \in UserTexts |-> parseRefineParams(t)]

SessionIds == {"s1"}

\* a client: the sessionId of its request bodies and its x-session-id header
Client(id, bodySessionId, headerSessionId) ==
  [id |-> id, bodySessionId |-> bodySessionId, headerSessionId |-> headerSessionId]

FirstClient == Client("c1", "s1", Undefined)

\* a || b || ... || dflt
firstTruthy(vals, dflt) ==
  IF SelectSeq(vals, LAMBDA v : v \notin {Undefined, ""}) = <<>> THEN dflt
  ELSE Head(SelectSeq(vals, LAMBDA v : v \notin {Undefined, ""}))

\* body.sessionId || headers["x-session-id"] || "anon"
sessionIdOf(c) == firstTruthy(<<c.bodySessionId, c.headerSessionId>>, "anon")

\* history: the client sends its transcript along (messages), not only the new
\* text; its last assistant message is then the previous reply
Requests == [text : UserTexts, sessionId : SessionIds, history : BOOLEAN, env : Envs]

\* ---------------------------------------------------------------------
\* chat_v2.ts: session memory
\* ---------------------------------------------------------------------
Proposed(slug, title, params) == [has |-> TRUE, slug |-> slug, title |-> title, params |-> params]
NoProposed == [has |-> FALSE, slug |-> None, title |-> <<>>, params |-> NoParams]

MemRow(slug, proposed) == [last_reco_slug |-> slug, proposed |-> proposed]
EmptyMem == MemRow(None, NoProposed)

getMem(sessionId) == mem[sessionId]

setMem(m, sessionId, row) == [m EXCEPT ![sessionId] = row]

\* ---------------------------------------------------------------------
\* chat_v2.ts: getToolRegistryCached — the list a call in this turn returns
\* ---------------------------------------------------------------------
cachedTools(r) == IF toolCache.valid THEN toolCache.data ELSE getToolRegistry(r.env.readOk)

cacheAfterRead(r) == [valid |-> TRUE, data |-> cachedTools(r)]

\* ---------------------------------------------------------------------
\* chat_v2.ts handler: the deterministic follow-up layer
\* ---------------------------------------------------------------------
\* [...messages].reverse().find(m => m.role === "assistant")?.content
lastAssistantText(r) == IF r.history THEN resp.body ELSE <<>>

\* 1) memory: slots.proposed, else last_reco_slug
fromMemory(row) ==
  IF row.proposed.has THEN row.proposed
  ELSE IF row.last_reco_slug # None THEN Proposed(row.last_reco_slug, <<>>, NoParams)
  ELSE NoProposed

\* 2) the last assistant message's Try line
fromAssistant(r, tools) ==
  LET last == lastAssistantText(r)
      det == detectToolFromAssistant(last, tools)
  IN  IF last # <<>> /\ det.slug # None
      THEN Proposed(det.slug, det.title, NoParams) ELSE NoProposed

\* 3) the last_reco_slug cookie
fromCookie == IF cookie # None THEN Proposed(cookie, <<>>, NoParams) ELSE NoProposed

resolveProposed(r, tools) ==
  LET m == fromMemory(getMem(r.sessionId))
      a == fromAssistant(r, tools)
  IN  IF m.has THEN m ELSE IF a.has THEN a ELSE fromCookie

findChosenFirst(tools, proposed) == IF tools # <<>> THEN tools[1] ELSE NoTool

\* tools.find(slug) || tools.find(title) || null
findChosen(tools, proposed) ==
  LET bySlug == FindFirst(SelectSeq(tools, LAMBDA t : t.slug = proposed.slug))
  IN  IF bySlug.slug # None THEN bySlug
      ELSE FindFirst(SelectSeq(tools, LAMBDA t : t.title = proposed.title))

\* what the handler knows before it branches: the classification, the proposed
\* tool it resolved, the registry tool that resolves to, the registry list
followUp(r) ==
  LET tools == cachedTools(r)
      proposed == resolveProposed(r, tools)
  IN  [follow |-> followOf[r.text],
       proposed |-> proposed,
       chosen |-> IF proposed.has THEN findChosen(tools, proposed) ELSE NoTool,
       tools |-> tools,
       stored |-> fromMemory(getMem(r.sessionId)).slug]

\* the registry was consulted before the router: for detection or for the proposed tool
readBeforeRouter(r, h) ==
  \/ h.proposed.has
  \/ (h.stored = None /\ lastAssistantText(r) # <<>>)

\* `${plan}\n\n${tryLine}` then renumberOrderedLists
planWithTry(tool, params) ==
  renumberOrderedLists(trim(renderPlanForTool(tool, params) \o <<Blank, formatTryLine(tool)>>))

\* ---------------------------------------------------------------------
\* Response records
\* ---------------------------------------------------------------------
\* status/route/reco/recoSlug/body are the HTTP response (X-Route, X-Reco,
\* X-Reco-Slug); trace records the turn: text is the user text, follow its
\* classification, storedSlug the proposed slug held in session state when the
\* turn began, proposedSlug the proposed tool the turn resolved, chosenSlug the
\* registry tool it resolved to, path the branch taken, calls the collaborators
\* consulted, routerRoute the route() result, toolSlugs the registry list the
\* turn used, isQA "routed QA with spans", raised who raised into the handler's
\* catch, failed the collaborators whose call failed during the turn, retried
\* the operations attempted again after an empty or failed first attempt.
Trace(r, h, path, calls, routerRoute, isQA) ==
  [text |-> r.text, follow |-> h.follow, storedSlug |-> h.stored,
   proposedSlug |-> h.proposed.slug, chosenSlug |-> h.chosen.slug,
   path |-> path, calls |-> calls, routerRoute |-> routerRoute,
   toolSlugs |-> ToolSlugs(h.tools), isQA |-> isQA,
   raised |-> None, failed |-> {}, retried |-> {}, decisionSlug |-> None]

NoTrace ==
  [text |-> <<>>, follow |-> None, storedSlug |-> None, proposedSlug |-> None,
   chosenSlug |-> None, path |-> None, calls |-> {}, routerRoute |-> None,
   toolSlugs |-> {}, isQA |-> FALSE, raised |-> None, failed |-> {}, retried |-> {},
   decisionSlug |-> None]

Response(status, xRoute, reco, recoSlug, body, trace) ==
  [status |-> status, route |-> xRoute, reco |-> reco, recoSlug |-> recoSlug,
   body |-> body, trace |-> trace]

NoResponse == Response(0, None, None, None, <<>>, NoTrace)

NoLog == [base |-> NoParams, deltas |-> <<>>]

storedParams(m, sessionId) == m[sessionId].proposed.params

\* ---------------------------------------------------------------------
\* Init
\* ---------------------------------------------------------------------
HandlerInit ==
  /\ mem = [s \in SessionIds |-> EmptyMem]
  /\ cookie = None
  /\ toolCache = [valid |-> FALSE, data |-> <<>>]
  /\ turn = 0
  /\ resp = NoResponse
  /\ refineLog = NoLog
  /\ client = FirstClient

\* nothing sent to the composer revision, no function under test, no request awaiting
NoReply == [status |-> 0]
NoProbe == [fn |-> None]
Idle == [busy |-> FALSE]
NoReg == [clock |-> 0]

Init ==
  /\ HandlerInit
  /\ creply = NoReply
  /\ probe = NoProbe
  /\ inflight = Idle
  /\ reg = NoReg

\* ---------------------------------------------------------------------
\* chat_v2.ts handler, POST, no debug/dry/sim mode
\* ---------------------------------------------------------------------
\* a request the client can send now: a transcript holds an assistant message
\* only after a reply
canSend(r) == turn < MaxTurns /\ (r.history => resp.status = 200)

\* if (!userText): q, else the last user message, trimmed, is empty
noUserText(text) == text = <<>>

\* 400: no user text; nothing is read or written
BadRequest(r) ==
  /\ canSend(r)
  /\ noUserText(r.text)
  /\ resp' = Response(400, None, None, None, <<>>, [NoTrace EXCEPT !.path = "400"])
  /\ turn' = turn + 1
  /\ UNCHANGED <<mem, cookie, toolCache, refineLog>>
  /\ UNCHANGED <<client, otherVars>>

\* JSON.parse(event.body) raises on a body that is not JSON: the handler's catch
\* answers 500; no text, no session id was resolved
MalformedBody ==
  /\ turn < MaxTurns
  /\ resp' = Response(500, None, None, None, <<>>,
                      [NoTrace EXCEPT !.path = "error", !.raised = "parse"])
  /\ turn' = turn + 1
  /\ UNCHANGED <<mem, cookie, toolCache, refineLog>>
  /\ UNCHANGED <<client, otherVars>>

\* follow === "accept" && chosen
acceptShortCircuits(follow, chosen) == follow = "accept" /\ chosen.slug # None

\* if (follow === "accept" && chosen) { ... return 200 }
FollowAccept(r) ==
  /\ canSend(r)
  /\ ~noUserText(r.text)
  /\ followOf[r.text] = "accept"
  /\ \E h \in {followUp(r)} :
       LET chosen == h.chosen
           params == h.proposed.params
       IN  /\ h.proposed.has
           /\ acceptShortCircuits(h.follow, chosen)
           /\ resp' = Response(200, "tools", "true", chosen.slug, planWithTry(chosen, params),
                               Trace(r, h, "accept", {"registry"}, None, FALSE))
           /\ cookie' = chosen.slug
           /\ mem' = setMem(mem, r.sessionId,
                            MemRow(chosen.slug, Proposed(chosen.slug, chosen.title, params)))
           /\ toolCache' = cacheAfterRead(r)
           /\ refineLog' = [base |-> params, deltas |-> <<>>]
  /\ turn' = turn + 1
  /\ UNCHANGED <<client, otherVars>>

\* if (follow === "refine" && chosen) { ... return 200 }
FollowRefine(r) ==
  /\ canSend(r)
  /\ ~noUserText(r.text)
  /\ followOf[r.text] = "refine"
  /\ \E h \in {followUp(r)} :
       \E delta \in {deltaOf[r.text]} :
         \E merged \in {mergeParams(h.proposed.params, delta)} :
           LET chosen == h.chosen
           IN  /\ h.proposed.has
               /\ chosen.slug # None
               /\ resp' = Response(200, "tools", "true", chosen.slug,
                                   planWithTry(chosen, merged),
                                   Trace(r, h, "refine", {"registry"}, None, FALSE))
               /\ cookie' = chosen.slug
               /\ mem' = setMem(mem, r.sessionId,
                                MemRow(chosen.slug,
                                       Proposed(chosen.slug, chosen.title, merged)))
               /\ toolCache' = cacheAfterRead(r)
               /\ refineLog' = [refineLog EXCEPT !.deltas = Append(@, delta)]
  /\ turn' = turn + 1
  /\ UNCHANGED <<client, otherVars>>

askInfoHeadersReco == [route |-> "tools", reco |-> "true"]

\* headers["X-Route"] = "coach"; headers["X-Reco"] = "false"
askInfoHeaders == [route |-> "coach", reco |-> "false"]

\* if (follow === "askinfo" && chosen) { ... return 200 }
FollowAskInfo(r) ==
  /\ canSend(r)
  /\ ~noUserText(r.text)
  /\ followOf[r.text] = "askinfo"
  /\ \E h \in {followUp(r)} :
       LET chosen == h.chosen
           params == h.proposed.params
       IN  /\ h.proposed.has
           /\ chosen.slug # None
           /\ resp' = Response(200, askInfoHeaders.route, askInfoHeaders.reco, None,
                               renderBlurb(chosen),
                               Trace(r, h, "askinfo", {"registry"}, None, FALSE))
           /\ mem' = setMem(mem, r.sessionId,
                            MemRow(chosen.slug, Proposed(chosen.slug, chosen.title, params)))
           /\ toolCache' = cacheAfterRead(r)
           /\ refineLog' = [base |-> params, deltas |-> <<>>]
           /\ UNCHANGED cookie
  /\ turn' = turn + 1
  /\ UNCHANGED <<client, otherVars>>

\* ---------------------------------------------------------------------
\* chat_v2.ts handler: router, scorer, agent, policy
\* ---------------------------------------------------------------------
\* one of the short-circuit branches returns
shortCircuits(h) ==
  /\ h.proposed.has
  /\ h.chosen.slug # None
  /\ \/ acceptShortCircuits(h.follow, h.chosen)
     \/ h.follow \in {"refine", "askinfo"}

\* reject / compare on a proposed tool: setMem({ last_reco_slug: null, slots: {} })
clearsProposed(h) == h.proposed.has /\ h.follow \in {"reject", "compare"}

memAfterFollowUp(r, h) ==
  IF clearsProposed(h) THEN setMem(mem, r.sessionId, EmptyMem) ELSE mem

alreadyQA(d) == d.route = "qa" /\ d.count > 0

scoreOrZero(s) == IF s.tool_intent_score = ScoreAbsent THEN 0 ELSE s.tool_intent_score

\* scored && scored.route !== "qa" && (scored.tool_intent_score ?? 0) >= 0.65
scorerAccepted(scored) ==
  scored.ok /\ scored.route # "qa" /\ scoreOrZero(scored) >= ScorerThreshold

\* the decision after the optional LLM scorer
applyScorer(d, env, userText) ==
  LET scored == scoreRouteLLM(env.hasKey, userText, env.llm)
      calls == d.calls \cup {"registry"}
                 \cup (IF scorerCallsLLM(env.hasKey, userText) THEN {"generation"} ELSE {})
  IN  IF alreadyQA(d) THEN d
      ELSE IF scorerAccepted(scored)
        THEN Decision(scored.route, 0, scored.best_tool_slug,
                      IF d.impl # None THEN d.impl ELSE "qa-first-v2+llm", calls)
      ELSE [d EXCEPT !.calls = calls]

GroundedLine == Line("text", FALSE, {<<"grounded">>}, <<"grounded", "in">>, 0)
NoAnswer == Line("text", FALSE, {<<"no">>}, <<"no", "answer">>, 0)
ConcisePlan == Line("text", FALSE, {<<"here">>}, <<"concise", "plan">>, 0)

\* QaAgent.handle: content.trim() || "No answer.", plus the grounding footer
qaAgentText(content, grounded) ==
  (IF trim(content) = <<>> THEN <<NoAnswer>> ELSE trim(content))
    \o (IF grounded THEN <<Blank, GroundedLine>> ELSE <<>>)

\* CoachAgent.handle: content.trim() || "Here's a concise plan."
coachAgentText(content) ==
  IF trim(content) = <<>> THEN <<ConcisePlan>> ELSE trim(content)

\* out = await (QaAgent | CoachAgent).handle(...): QA retrieves itself when the
\* router gave no spans; the coach path retrieves grounding first, and a second
\* time with a wider query and a lower floor when the first attempt finds nothing
agentOut(d, env) ==
  IF d.route = "qa"
  THEN [text |-> qaAgentText(env.content, d.count > 0 \/ env.spans >= 1), route |-> "qa",
        calls |-> {"generation"} \cup (IF d.count > 0 THEN {} ELSE {"retrieval"}),
        retried |-> IF d.count = 0 /\ "retrieval" \in d.calls THEN {"retrieval"} ELSE {}]
  ELSE [text |-> coachAgentText(env.content), route |-> "coach",
        calls |-> {"retrieval", "generation"},
        retried |-> IF env.ground = 0 THEN {"retrieval"} ELSE {}]

qaLike(userText) ==
  HasWord(userText, {"where", "documented", "doc", "docs", "wiki", "handbook", "policy",
                     "link", "url", "page"})

pickChosenToolTrusting(d, userText, outText, tools) ==
  LET byIntent == matchToolByIntent(userText, tools)
  IN  IF d.best_tool_slug # None THEN [NoTool EXCEPT !.slug = d.best_tool_slug]
      ELSE IF byIntent.slug # None THEN byIntent
      ELSE detectToolFromAssistant(outText, tools)

\* decision.best_tool_slug, else matchToolByIntent, else detectToolFromAssistant
pickChosenTool(d, userText, outText, tools) ==
  LET bySlug == IF d.best_tool_slug # None
                THEN FindFirst(SelectSeq(tools, LAMBDA t : t.slug = d.best_tool_slug)) ELSE NoTool
      byIntent == matchToolByIntent(userText, tools)
  IN  IF bySlug.slug # None THEN bySlug
      ELSE IF byIntent.slug # None THEN byIntent
      ELSE detectToolFromAssistant(outText, tools)

\* !isQA && !qaLike && chosenTool
enforcesTool(userText, isQA, chosenTool) ==
  ~isQA /\ ~qaLike(userText) /\ chosenTool.slug # None

\* isQA ? out.text : sanitizeNeutralGuidance(out.text, allow)
neutralText(isQA, outText, allow) ==
  IF isQA THEN outText ELSE sanitizeNeutralGuidance(outText, allow)

recoHeader(recoSlug) == IF recoSlug # None THEN "true" ELSE "false"

\* the routed part of a turn: router decision, scorer, agent, policy choice
routedTurn(r, h) ==
  LET d0 == pickRoute(r.env.impl, r.text, lastAssistantText(r), r.env)
      d == applyScorer(d0, r.env, r.text)
      out == agentOut(d, r.env)
  IN  [threw |-> d0.threw,
       routerCalls |-> d0.calls,
       routerRoute |-> d0.route,
       routerQA |-> alreadyQA(d0),
       isQA |-> alreadyQA(d),
       bestSlug |-> d.best_tool_slug,
       out |-> out,
       chosenTool |-> pickChosenTool(d, r.text, out.text, h.tools),
       calls |-> {"router", "registry"} \cup d.calls \cup out.calls]

\* the collaborators whose call failed during the routed part of a turn: the
\* router's registry read or retrieval, the scorer's completion, the agent's
\* retrieval or completion, the handler's own registry read
failedCalls(r, h, t) ==
  (IF "registry" \in t.routerCalls /\ ~r.env.readOk THEN {"registry"} ELSE {})
    \cup (IF "retrieval" \in t.routerCalls /\ r.env.spans = SpansFail THEN {"retrieval"} ELSE {})
    \cup (IF /\ ~r.env.llm.ok
              /\ \/ "generation" \in t.routerCalls
                 \/ (~t.threw /\ ~t.routerQA /\ scorerCallsLLM(r.env.hasKey, r.text))
           THEN {"generation"} ELSE {})
    \cup (IF ~t.threw /\ ~r.env.agentOk THEN {"agent"} ELSE {})
    \cup (IF /\ ~toolCache.valid /\ ~r.env.readOk
              /\ (readBeforeRouter(r, h) \/ (~t.threw /\ (~t.routerQA \/ r.env.agentOk)))
           THEN {"registry"} ELSE {})

\* the handler's catch: route(), the grounding retrieval or the agent raised -> 500
Raises(r) ==
  /\ canSend(r)
  /\ ~noUserText(r.text)
  /\ ~r.env.agentOk \/ pickRoute(r.env.impl, r.text, lastAssistantText(r), r.env).threw
  /\ \E h \in {followUp(r)} :
       \E t \in {routedTurn(r, h)} :
         /\ ~shortCircuits(h)
         /\ resp' = Response(500, None, None, None, <<>>,
                             IF t.threw
                             THEN [Trace(r, h, "error", {"router"} \cup t.routerCalls,
                                         None, FALSE)
                                     EXCEPT !.raised = "router",
                                            !.failed = failedCalls(r, h, t)]
                             ELSE [Trace(r, h, "error", t.calls \ {"registry"},
                                         t.routerRoute, t.isQA)
                                     EXCEPT !.raised = "agent",
                                            !.failed = failedCalls(r, h, t)])
         /\ mem' = memAfterFollowUp(r, h)
         /\ toolCache' = IF readBeforeRouter(r, h) \/ (~t.threw /\ ~t.routerQA)
                         THEN cacheAfterRead(r) ELSE toolCache
         /\ refineLog' = [base |-> storedParams(mem', r.sessionId), deltas |-> <<>>]
         /\ UNCHANGED cookie
  /\ turn' = turn + 1
  /\ UNCHANGED <<client, otherVars>>

\* the policy step picks an internal tool: plan + Try line, route tools
enforcedResponse(r, h, t) ==
  Response(200, "tools", recoHeader(t.chosenTool.slug), t.chosenTool.slug,
           planWithTry(t.chosenTool, getMem(r.sessionId).proposed.params),
           [Trace(r, h, "routed", t.calls, t.routerRoute, t.isQA)
              EXCEPT !.failed = failedCalls(r, h, t), !.retried = t.out.retried,
                     !.decisionSlug = t.bestSlug])

\* no tool enforced: QA text as is, anything else through the sanitizer
neutralResponse(r, h, t) ==
  Response(200, t.out.route, recoHeader(None), None,
           neutralText(t.isQA, t.out.text, buildAllowlist(h.tools)),
           [Trace(r, h, "routed", t.calls, t.routerRoute, t.isQA)
              EXCEPT !.failed = failedCalls(r, h, t), !.retried = t.out.retried,
                     !.decisionSlug = t.bestSlug])

\* no short-circuit: router, scorer, agent, policy, 200
Routed(r) ==
  /\ canSend(r)
  /\ ~noUserText(r.text)
  /\ r.env.agentOk
  /\ \E h \in {followUp(r)} :
       \E t \in {routedTurn(r, h)} :
         /\ ~shortCircuits(h)
         /\ ~t.threw
         /\ IF enforcesTool(r.text, t.isQA, t.chosenTool)
            THEN /\ resp' = enforcedResponse(r, h, t)
                 /\ cookie' = t.chosenTool.slug
                 /\ mem' = setMem(memAfterFollowUp(r, h), r.sessionId,
                                  MemRow(t.chosenTool.slug,
                                         Proposed(t.chosenTool.slug, t.chosenTool.title,
                                                  getMem(r.sessionId).proposed.params)))
            ELSE /\ resp' = neutralResponse(r, h, t)
                 /\ mem' = memAfterFollowUp(r, h)
                 /\ UNCHANGED cookie
         /\ toolCache' = cacheAfterRead(r)
         /\ refineLog' = [base |-> storedParams(mem', r.sessionId), deltas |-> <<>>]
  /\ turn' = turn + 1
  /\ UNCHANGED <<client, otherVars>>

\* five minutes pass: TOOL_CACHE is stale
CacheExpires ==
  /\ toolCache.valid
  /\ toolCache' = [valid |-> FALSE, data |-> <<>>]
  /\ UNCHANGED <<mem, cookie, turn, resp, refineLog>>
  /\ UNCHANGED <<client, otherVars>>

Next ==
  \/ \E r \in Requests : BadRequest(r)
  \/ MalformedBody
  \/ \E r \in Requests : FollowAccept(r)
  \/ \E r \in Requests : FollowRefine(r)
  \/ \E r \in Requests : FollowAskInfo(r)
  \/ \E r \in Requests : Raises(r)
  \/ \E r \in Requests : Routed(r)
  \/ CacheExpires

Spec == Init /\ [][Next]_vars

\* =====================================================================
\* Library functions applied to drawn inputs
\* =====================================================================
\* ---------------------------------------------------------------------
\* Raw tool_docs rows (chat_v2.ts and lib/tools_flex.ts share this code)
\* ---------------------------------------------------------------------
\* the columns isEnabledRow looks at, in the order of its ?? chain
FlagColumns == <<"enabled", "is_enabled", "active", "is_active", "status">>

\* a column's value: absent (undefined or null), a boolean, a string, a number
FlagValues == {"absent", "b:false", "s:yes", "n:0"}

TruthyStrings == {"s:1", "s:true", "s:t", "s:y", "s:yes", "s:active", "s:enabled"}

\* a raw row: title and tool_name are title columns (token sequences, <<>> when
\* absent or empty), slug is the slug column ("" when absent or empty)
RawRows ==
  [title : {<<>>, <<"weekly", "report">>}, tool_name : {<<>>, <<"daily", "checklist">>},
   slug : {"", "wr"}, flags : [1..Len(FlagColumns) -> FlagValues]]

\* kebab(title) for the titles tried: lower-case, runs of other characters become "-"
kebab(title) ==
  IF title = <<"weekly", "report">> THEN "weekly-report"
  ELSE IF title = <<"daily", "checklist">> THEN "daily-checklist"
  ELSE ""

\* row.enabled ?? row.is_enabled ?? row.active ?? row.is_active ?? row.status
firstFlag(row) ==
  IF \A i \in DOMAIN FlagColumns : row.flags[i] = "absent" THEN "absent"
  ELSE row.flags[CHOOSE i \in DOMAIN FlagColumns :
                   /\ row.flags[i] # "absent"
                   /\ \A j \in 1..(i - 1) : row.flags[j] = "absent"]

isEnabledRowStrict(row) == firstFlag(row) \in {"b:true", "n:1"} \cup TruthyStrings

\* boolean: itself; string: one of the truthy tokens; number: > 0; else true
isEnabledRow(row) ==
  LET v == firstFlag(row)
  IN  IF v \in {"b:true", "b:false"} THEN v = "b:true"
      ELSE IF v \in {"n:0", "n:1"} THEN v = "n:1"
      ELSE IF v # "absent" THEN v \in TruthyStrings
      ELSE TRUE

NullRow == [null |-> TRUE, slug |-> "", title |-> <<>>, enabled |-> FALSE]

\* coalesce(row.title, row.tool_name, ...): the first non-empty one
rowTitle(row) == IF row.title # <<>> THEN row.title ELSE row.tool_name

\* coalesce(row.slug, ..., kebab(title))
rowSlug(row) == IF row.slug # "" THEN row.slug ELSE kebab(rowTitle(row))

normalizeToolRow(row) ==
  IF rowTitle(row) = <<>> \/ rowSlug(row) = "" THEN NullRow
  ELSE [null |-> FALSE, slug |-> rowSlug(row), title |-> rowTitle(row),
        enabled |-> isEnabledRow(row)]

\* the rows a loop "t = normalizeToolRow(row); if (t && t.enabled) out.push(t)" keeps
RECURSIVE keepEnabled(_)
keepEnabled(rows) ==
  IF rows = <<>> THEN <<>>
  ELSE LET t == normalizeToolRow(Head(rows))
       IN  (IF ~t.null /\ t.enabled THEN <<t>> ELSE <<>>) \o keepEnabled(Tail(rows))

\* ---------------------------------------------------------------------
\* The three registry reads.  outcome: "ok" (rows returned), "error" (the
\* client resolves with { data: null, error }), "rejected" (the awaited call
\* rejects)
\* ---------------------------------------------------------------------
ReadOutcomes == {"ok", "error", "rejected"}

Returned(items) == [threw |-> FALSE, items |-> items]
Threw == [threw |-> TRUE, items |-> <<>>]

\* chat_v2.ts getToolRegistry: const { data } = await ...; rows of (data || [])
chatGetToolRegistry(outcome, rows) ==
  IF outcome = "rejected" THEN Threw
  ELSE IF outcome = "error" THEN Returned(<<>>)
  ELSE Returned(keepEnabled(rows))

\* lib/tools.ts getToolRegistry: if (error) throw error; filter enabled !== false
libGetToolRegistry(outcome, rows) ==
  IF outcome # "ok" THEN Threw
  ELSE Returned(SelectSeq(
         [i \in DOMAIN rows |->
            [null |-> FALSE, slug |-> rows[i].slug, title |-> rows[i].title,
             enabled |-> rows[i].flags[1] # "b:false"]],
         LAMBDA t : t.enabled))

\* lib/tools_flex.ts: if (error || !data) return []
fetchToolRegistryFlexible(outcome, rows) ==
  IF outcome = "rejected" THEN Threw
  ELSE IF outcome = "error" THEN Returned(<<>>)
  ELSE Returned(keepEnabled(rows))

registryRead(impl, outcome, rows) ==
  IF impl = "chat_v2.ts" THEN chatGetToolRegistry(outcome, rows)
  ELSE IF impl = "lib/tools.ts" THEN libGetToolRegistry(outcome, rows)
  ELSE fetchToolRegistryFlexible(outcome, rows)

RegistryImpls == {"chat_v2.ts", "lib/tools.ts", "lib/tools_flex.ts"}

\* a row with every flag column absent / with the given value in column i
Flagless(title, toolName, slug) ==
  [title |-> title, tool_name |-> toolName, slug |-> slug,
   flags |-> [i \in 1..Len(FlagColumns) |-> "absent"]]

Flagged(row, i, v) == [row EXCEPT !.flags[i] = v]

\* the tables tried: storage order matters
RowLists ==
  { <<>>,
    << Flagless(<<"weekly", "report">>, <<>>, "wr") >>,
    << Flagged(Flagless(<<"weekly", "report">>, <<>>, "wr"), 1, "b:false"),
       Flagless(<<>>, <<"daily", "checklist">>, "") >>,
    << Flagless(<<>>, <<>>, "wr"),
       Flagged(Flagless(<<"weekly", "report">>, <<>>, ""), 5, "s:yes"),
       Flagged(Flagless(<<>>, <<"daily", "checklist">>, "wr"), 3, "n:0") >> }

\* ---------------------------------------------------------------------
\* Inputs for matchToolByIntent: lists of enabled registry rows, in storage order
\* ---------------------------------------------------------------------
\* scores like DailyChecklist on every text that does not name either title
TeamChecklist ==
  [slug |-> "team-checklist", title |-> <<"team", "checklist">>,
   summary |-> <<>>, why |-> <<>>, outcome |-> <<"done">>, content |-> <<>>,
   keywords |-> {"checklist"}, patterns |-> {<<"checklist">>}, enabled |-> TRUE]

ToolLists ==
  { <<>>, <<WeeklyReport>>, <<WeeklyReport, DailyChecklist>>,
    <<DailyChecklist, TeamChecklist>>, <<TeamChecklist, DailyChecklist>>,
    <<WeeklyReport, TeamChecklist, DailyChecklist>>,
    <<DailyChecklist, WeeklyReport, TeamChecklist>> }

IntentTexts ==
  { <<"hello">>, <<"checklist">>, <<"daily">>, <<"report">>, <<"weekly", "report">>,
    <<"team", "checklist">>, <<"my", "daily", "habits">>, <<"weekly", "team", "updates">> }

\* ---------------------------------------------------------------------
\* The functions under test, applied once to each input
\* ---------------------------------------------------------------------
\* ---------------------------------------------------------------------
\* Resolving the user text of a request body
\* ---------------------------------------------------------------------
\* Field values are strings; Undefined stands for a field that is missing or
\* null.  The strings drawn carry no outer white space except Blank ones.

BlankStrings == {"", " "}

strTrim(s) == IF s \in BlankStrings THEN "" ELSE s

\* a ?? b ?? ... ?? dflt
firstDefined(vals, dflt) ==
  IF SelectSeq(vals, LAMBDA v : v # Undefined) = <<>> THEN dflt
  ELSE Head(SelectSeq(vals, LAMBDA v : v # Undefined))

\* q, query, text, message, prompt, content, input
DirectFields == 7

\* data.q, data.text, data.message, data.prompt
NestedFields == 4

Msg(role, content) == [role |-> role, content |-> content]

lastUserFromMessages(messages) ==
  LET users == SelectSeq(messages, LAMBDA x : x.role = "user")
      c == users[Len(users)].content
  IN  IF users = <<>> THEN ""
      ELSE IF c = Undefined \/ c = "" THEN ""
      ELSE c

extractUserText(p) ==
  LET direct == firstDefined(p.direct, "")
      fromMsgs == lastUserFromMessages(p.messages)
      nested == firstDefined(p.data, "")
  IN  IF direct # "" /\ strTrim(direct) # "" THEN strTrim(direct)
      ELSE IF fromMsgs # "" THEN strTrim(fromMsgs)
      ELSE strTrim(nested)

\* the handler of chat_v2.ts: body?.q ?? (last user message with a string content)?.content ?? ""
chatUserText(p) ==
  LET users == SelectSeq(p.messages, LAMBDA x : x.role = "user" /\ x.content # Undefined)
      lastUser == IF users = <<>> THEN Undefined ELSE users[Len(users)].content
  IN  strTrim(firstDefined(<<p.direct[1], lastUser>>, ""))

userTextOf(impl, p) == IF impl = "part_018" THEN extractUserText(p) ELSE chatUserText(p)

TextImpls == {"part_018", "chat_v2.ts"}

Bodies ==
  [ direct   : { [i \in 1..DirectFields |-> IF i = 1 THEN q ELSE IF i = 3 THEN t ELSE Undefined] :
                   q \in {Undefined, "", " ", "from q"}, t \in {Undefined, "", "from text"} },
    messages : { <<>>, <<Msg("user", "from messages")>>,
                 <<Msg("user", "from messages"), Msg("assistant", "reply")>>,
                 <<Msg("user", "older"), Msg("user", "")>>,
                 <<Msg("user", " ")>> },
    data     : { [i \in 1..NestedFields |-> IF i = 1 THEN d ELSE Undefined] :
                   d \in {Undefined, "from data"} } ]

\* ---------------------------------------------------------------------
\* Texts handed to the sanitizer
\* ---------------------------------------------------------------------
MaxLines == 3

Fence == Line("fence", FALSE, {}, <<>>, 0)
Bullet == Line("bullet", FALSE, {}, <<"item">>, 0)
NumAlt(n) == Line("numalt", FALSE, {}, <<>>, n)
\* "2. Use Asana"
NumExt == Line("num", TRUE, {<<"asana">>}, <<"use", "asana">>, 2)

RECURSIVE SeqsUpTo(_, _)
SeqsUpTo(S, n) ==
  IF n = 0 THEN {<<>>}
  ELSE SeqsUpTo(S, n - 1) \cup { Append(s, x) : s \in { t \in SeqsUpTo(S, n - 1) : Len(t) = n - 1 }, x \in S }

ListLines == {Blank, NumLine(1), NumLine(3), NumAlt(2), Fence, Bullet, Neutral}

GuidanceLines == {Blank, NumLine(2), NumExt, Neutral, ExtLine, OwnLine, BrandOnly, TryLine(ExternalTitle)}

Allowlists == {buildAllowlist(Registry), {}}

RenumberImpls == {"part_007", "sanitize.ts"}

renumberOf(impl, text) ==
  IF impl = "part_007" THEN renumberOrderedLists(text) ELSE renumberOrderedListsEarly(text)

\* ---------------------------------------------------------------------
\* The router's decision and the LLM scorer
\* ---------------------------------------------------------------------
ScorerTexts == { <<"courses">>, <<"hello">>, <<"where", "policy">>, <<"book", "checklist">> }

ScorerSays ==
  { ScorerNull, LlmSays("tools", "weekly-report", 70), LlmSays("tools", "weekly-report", 30),
    LlmSays("coach", None, ScoreAbsent), LlmSays("qa", None, 90) }

ScorerEnvs ==
  { Env(impl, TRUE, spans, hasKey, llm, <<>>, TRUE, 0) :
      impl \in {"router.ts", "qa-first-v2", "llm-v2"}, spans \in {0, 1},
      hasKey \in BOOLEAN, llm \in ScorerSays }

\* route() of the llm-v2 revision when the scorer gives nothing: its rules alone
routeLlmV2Rules(userText, env) == routeLlmV2(userText, <<>>, [env EXCEPT !.hasKey = FALSE])

ProbeInputs ==
  { [fn |-> "normalizeToolRow", done |-> FALSE, row |-> row] : row \in RawRows }
  \cup { [fn |-> "getToolRegistry", done |-> FALSE, impl |-> impl, outcome |-> o, rows |-> rows] :
           impl \in RegistryImpls, o \in ReadOutcomes, rows \in RowLists }
  \cup { [fn |-> "matchToolByIntent", done |-> FALSE, text |-> text, tools |-> tools] :
           text \in IntentTexts, tools \in ToolLists }
  \cup { [fn |-> "extractUserText", done |-> FALSE, impl |-> impl, body |-> b] :
           impl \in TextImpls, b \in Bodies }
  \cup { [fn |-> "applyScorer", done |-> FALSE, text |-> text, env |-> env] :
           text \in ScorerTexts, env \in ScorerEnvs }
  \cup { [fn |-> "route", done |-> FALSE, text |-> text, env |-> env] :
           text \in ScorerTexts, env \in { e \in ScorerEnvs : e.impl = "llm-v2" } }
  \cup { [fn |-> "sanitizeNeutralGuidance", done |-> FALSE, lines |-> text, allow |-> allow] :
           text \in SeqsUpTo(GuidanceLines, MaxLines), allow \in Allowlists }
  \cup { [fn |-> "renumberOrderedLists", done |-> FALSE, impl |-> impl, lines |-> text] :
           impl \in RenumberImpls, text \in SeqsUpTo(ListLines, MaxLines) }

FnInit ==
  /\ HandlerInit
  /\ creply = NoReply
  /\ inflight = Idle
  /\ reg = NoReg
  /\ probe \in ProbeInputs

ApplyNormalizeToolRow ==
  /\ probe.fn = "normalizeToolRow"
  /\ ~probe.done
  /\ probe' = [fn |-> probe.fn, done |-> TRUE, row |-> probe.row,
               out |-> normalizeToolRow(probe.row)]
  /\ UNCHANGED <<handlerVars, creply, inflight, reg>>

ApplyGetToolRegistry ==
  /\ probe.fn = "getToolRegistry"
  /\ ~probe.done
  /\ probe' = [fn |-> probe.fn, done |-> TRUE, impl |-> probe.impl,
               outcome |-> probe.outcome, rows |-> probe.rows,
               out |-> registryRead(probe.impl, probe.outcome, probe.rows)]
  /\ UNCHANGED <<handlerVars, creply, inflight, reg>>

ApplyMatchToolByIntent ==
  /\ probe.fn = "matchToolByIntent"
  /\ ~probe.done
  /\ probe' = [fn |-> probe.fn, done |-> TRUE, text |-> probe.text, tools |-> probe.tools,
               out |-> matchToolByIntent(probe.text, probe.tools)]
  /\ UNCHANGED <<handlerVars, creply, inflight, reg>>

ApplyExtractUserText ==
  /\ probe.fn = "extractUserText"
  /\ ~probe.done
  /\ probe' = [fn |-> probe.fn, done |-> TRUE, impl |-> probe.impl, body |-> probe.body,
               out |-> userTextOf(probe.impl, probe.body)]
  /\ UNCHANGED <<handlerVars, creply, inflight, reg>>

ApplySanitizeNeutralGuidance ==
  /\ probe.fn = "sanitizeNeutralGuidance"
  /\ ~probe.done
  /\ probe' = [fn |-> probe.fn, done |-> TRUE, lines |-> probe.lines, allow |-> probe.allow,
               out |-> sanitizeNeutralGuidance(probe.lines, probe.allow)]
  /\ UNCHANGED <<handlerVars, creply, inflight, reg>>

\* the renumber step run once, and run again on its own output
ApplyRenumberOrderedLists ==
  /\ probe.fn = "renumberOrderedLists"
  /\ ~probe.done
  /\ probe' = [fn |-> probe.fn, done |-> TRUE, impl |-> probe.impl, lines |-> probe.lines,
               out |-> renumberOf(probe.impl, probe.lines),
               again |-> renumberOf(probe.impl, renumberOf(probe.impl, probe.lines))]
  /\ UNCHANGED <<handlerVars, creply, inflight, reg>>

\* the scorer block of the handler, applied to what pickRoute decided
ApplyScorer ==
  /\ probe.fn = "applyScorer"
  /\ ~probe.done
  /\ probe' = [fn |-> probe.fn, done |-> TRUE, text |-> probe.text, env |-> probe.env,
               out |-> [det |-> pickRoute(probe.env.impl, probe.text, <<>>, probe.env),
                        scored |-> scoreRouteLLM(probe.env.hasKey, probe.text, probe.env.llm),
                        final |-> applyScorer(pickRoute(probe.env.impl, probe.text, <<>>, probe.env),
                                              probe.env, probe.text)]]
  /\ UNCHANGED <<handlerVars, creply, inflight, reg>>

\* route() of the llm-v2 revision, next to what its rules decide without the scorer
ApplyRoute ==
  /\ probe.fn = "route"
  /\ ~probe.done
  /\ probe' = [fn |-> probe.fn, done |-> TRUE, text |-> probe.text, env |-> probe.env,
               out |-> [det |-> routeLlmV2Rules(probe.text, probe.env),
                        scored |-> scoreRouteLLM(probe.env.hasKey, probe.text, probe.env.llm),
                        final |-> routeLlmV2(probe.text, <<>>, probe.env)]]
  /\ UNCHANGED <<handlerVars, creply, inflight, reg>>

FnNext ==
  \/ ApplyNormalizeToolRow
  \/ ApplyGetToolRegistry
  \/ ApplyMatchToolByIntent
  \/ ApplyExtractUserText
  \/ ApplyScorer
  \/ ApplyRoute
  \/ ApplySanitizeNeutralGuidance
  \/ ApplyRenumberOrderedLists

FnSpec == FnInit /\ [][FnNext]_vars

\* =====================================================================
\* The stateless chat function (part_018) and the composer (part_010)
\* =====================================================================
\* Texts of this function are sequences of segments; <<>> is the empty (or
\* all-blank) string.  User texts and list titles are sequences of normalised
\* words, none of which is a substring of another, so that String.includes on
\* the normalised strings is membership of words.

StopWords == {"the", "a", "an"}

\* words shorter than three characters
ShortWords == {"go"}

MediaHeader == <<"Here are practical, nuts-and-bolts picks you can use immediately:">>
PitchDefault == <<"This tool looks like a good fit for this problem.">>
ConfirmCta == <<"Want me to set this up? (Yes / No)">>
DeepDiveDefault == <<"Here's a concrete next-step plan you can run today.">>
GotIt == <<"Got it.">>
Okay == <<"Okay.">>
PleaseType == <<"Please type your question.">>
InternalError == <<"Internal error">>
NoTitle == <<>>

StarterFor(title) == <<"Here's a concrete starter for">> \o title \o <<"Want me to tailor a checklist template for your team? (Yes/No)">>

dropStop(ws) == SelectSeq(ws, LAMBDA w : w \notin StopWords)

includesPhrase(t, q) == \E i \in 0..(Len(t) - Len(q)) : SubSeq(t, i + 1, i + Len(q)) = q

titleScore(query, title) ==
  LET tNorm == dropStop(title)
  IN  Cardinality({ i \in DOMAIN query :
                      query[i] \notin ShortWords /\ \E j \in DOMAIN tNorm : tNorm[j] = query[i] })
      + (IF includesPhrase(tNorm, query) THEN 2 ELSE 0)

detectSelectionTitle(userText, titles) ==
  LET query == dropStop(userText)
      need  == Max(2, (Len(query) + 1) \div 2)
      best  == CHOOSE i \in DOMAIN titles :
                 /\ \A j \in DOMAIN titles : titleScore(query, titles[j]) <= titleScore(query, titles[i])
                 /\ \A j \in 1..(i - 1) : titleScore(query, titles[j]) < titleScore(query, titles[i])
  IN  IF query = <<>> \/ (Len(query) = 1 /\ query[1] \in ShortWords) THEN NoTitle
      ELSE IF titles = <<>> THEN NoTitle
      ELSE IF titleScore(query, titles[best]) >= need THEN titles[best]
      ELSE NoTitle

\* What one call of the generation backend gives: the call rejects, or
\* choices[0].message.content is empty, is not JSON, or is a JSON object.
Obj(mode, message) == [kind |-> "object", mode |-> mode, message |-> message]
CallRejects == [kind |-> "rejected", mode |-> None, message |-> <<>>]
EmptyContent == [kind |-> "empty", mode |-> None, message |-> <<>>]
Unparseable == [kind |-> "unparseable", mode |-> None, message |-> <<>>]
GenOutcomes ==
  { CallRejects, EmptyContent, Unparseable,
    Obj("qa", <<"body">>), Obj("coach", <<>>), Obj("media_recs", <<>>),
    Obj("offer_tool", <<"body">>), Obj("deep_dive", <<"body">>), Obj("deep_dive", <<>>) }

Resolved(v) == [threw |-> FALSE, value |-> v]
Rejects == [threw |-> TRUE, value |-> Obj(None, <<>>)]

composeReply(out) ==
  CASE out.kind = "rejected"    -> Rejects
    [] out.kind = "empty"       -> Resolved(Obj(None, <<>>))
    [] out.kind = "unparseable" -> Rejects
    [] OTHER                    -> Resolved(out)

composeToolPlan(out) ==
  CASE out.kind = "rejected"    -> Rejects
    [] out.kind = "empty"       -> Resolved(Obj(None, <<>>))
    [] out.kind = "unparseable" -> Rejects
    [] OTHER                    -> Resolved(out)

normalizeReply(raw) ==
  CASE raw.mode = "media_recs" ->
         [mode |-> "media_recs", message |-> IF raw.message # <<>> THEN raw.message ELSE MediaHeader]
    [] raw.mode = "offer_tool" ->
         [mode |-> "offer_tool", message |-> IF raw.message # <<>> THEN raw.message ELSE PitchDefault]
    [] raw.mode = "deep_dive" ->
         [mode |-> "deep_dive", message |-> IF raw.message # <<>> THEN raw.message ELSE DeepDiveDefault]
    [] OTHER ->
         [mode |-> IF raw.mode = "coach" THEN "coach" ELSE "qa",
          message |-> IF raw.message # <<>> THEN raw.message ELSE GotIt]

renderMedia(reply) == IF reply.message # <<>> THEN reply.message ELSE MediaHeader

renderOfferTool(reply) == reply.message \o <<"**slug**">> \o ConfirmCta

composeOnce(out) ==
  LET raw == composeReply(out)
  IN  IF raw.threw THEN Rejects ELSE Resolved(normalizeReply(raw.value))

ReplyTrace(p, title, calls, raw, raised) ==
  [payload |-> p, selectionTitle |-> title, calls |-> calls, raw |-> raw, raised |-> raised]

Reply(status, rt, text, trace) ==
  [status |-> status, route |-> rt, text |-> text, trace |-> trace]

\* the text of the switch on reply.mode followed by the last-resort text
routeOf(mode) ==
  CASE mode = "offer_tool" -> "tools"
    [] mode \in {"deep_dive", "coach"} -> "coach"
    [] OTHER -> "qa"

textOf(reply, title) ==
  LET text == CASE reply.mode = "media_recs" -> renderMedia(reply)
                [] reply.mode = "offer_tool" -> renderOfferTool(reply)
                [] OTHER -> reply.message
  IN  IF text # <<>> THEN text
      ELSE IF title # NoTitle THEN StarterFor(title) ELSE Okay

\* processChatV2 under the handler's try/catch: p is the parsed payload, g1
\* and g2 what the first and the second generation call of the turn give.
processChatV2(p, g1, g2) ==
  LET title  == detectSelectionTitle(p.userText, p.titles)
      rank   == IF p.catalog THEN <<"rankTools">> ELSE <<>>
      plan   == composeToolPlan(g1)
      first  == composeOnce(g1)
      again  == title # NoTitle /\ ~first.threw /\ first.value.mode # "deep_dive"
      second == composeOnce(g2)
      reply  == IF again THEN second.value ELSE first.value
      calls  == rank \o (IF again THEN <<"composeReply", "composeReply">> ELSE <<"composeReply">>)
      raw    == IF again THEN <<g1, g2>> ELSE <<g1>>
  IN
  IF p.userText = <<>> /\ p.confirm = None
    THEN Reply(400, "qa", PleaseType, ReplyTrace(p, NoTitle, <<>>, <<>>, FALSE))
  ELSE IF p.catalog /\ ~p.rankOk
    THEN Reply(500, "qa", InternalError, ReplyTrace(p, NoTitle, rank, <<>>, TRUE))
  ELSE IF p.confirm # None
    THEN IF plan.threw
           THEN Reply(500, "qa", InternalError,
                      ReplyTrace(p, NoTitle, rank \o <<"composeToolPlan">>, <<g1>>, TRUE))
           ELSE Reply(200, "tools",
                      IF plan.value.message # <<>> THEN plan.value.message
                                                   ELSE <<"I'll configure", p.confirm>>,
                      ReplyTrace(p, NoTitle, rank \o <<"composeToolPlan">>, <<g1>>, FALSE))
  ELSE IF first.threw \/ (again /\ second.threw)
    THEN Reply(500, "qa", InternalError, ReplyTrace(p, title, calls, raw, TRUE))
  ELSE Reply(200, routeOf(reply.mode), textOf(reply, title), ReplyTrace(p, title, calls, raw, FALSE))

ListTitles == << <<"the", "checklist", "manifesto">>, <<"checklist">>, <<"manifesto", "checklist">> >>

Payloads ==
  { p \in [ userText : { <<>>, <<"checklist", "manifesto">>, <<"the", "checklist">>, <<"go">> },
            titles   : { <<>>, ListTitles },
            confirm  : { None, "weekly-report" },
            catalog  : BOOLEAN,
            rankOk   : BOOLEAN ] : p.catalog \/ p.rankOk }

\* processChatV2 tabulated over the inputs of a request
replyOf ==
  [p \in Payloads, g1 \in GenOutcomes, g2 \in GenOutcomes |-> processChatV2(p, g1, g2)]

NoPayload ==
  [userText |-> <<>>, titles |-> <<>>, confirm |-> None, catalog |-> FALSE, rankOk |-> TRUE]

ComposerInit ==
  /\ HandlerInit
  /\ probe = NoProbe
  /\ inflight = Idle
  /\ reg = NoReg
  /\ creply = NoReply

MethodNotAllowed ==
  /\ creply' = Reply(405, None, <<"Method Not Allowed">>,
                     ReplyTrace(NoPayload, NoTitle, <<>>, <<>>, FALSE))
  /\ UNCHANGED <<handlerVars, probe, inflight, reg>>

PostWithoutText ==
  /\ \E p \in Payloads :
       /\ p.userText = <<>> /\ p.confirm = None
       /\ creply' = replyOf[p, EmptyContent, EmptyContent]
  /\ UNCHANGED <<handlerVars, probe, inflight, reg>>

PostConfirm ==
  /\ \E p \in Payloads, g1 \in GenOutcomes :
       /\ p.confirm # None
       /\ creply' = replyOf[p, g1, EmptyContent]
       /\ creply'.status = 200
  /\ UNCHANGED <<handlerVars, probe, inflight, reg>>

PostComposed ==
  /\ \E p \in Payloads, g1 \in GenOutcomes, g2 \in GenOutcomes :
       /\ p.userText # <<>> /\ p.confirm = None
       /\ creply' = replyOf[p, g1, g2]
       /\ creply'.status = 200
  /\ UNCHANGED <<handlerVars, probe, inflight, reg>>

PostRaises ==
  /\ \E p \in Payloads, g1 \in GenOutcomes, g2 \in GenOutcomes :
       /\ ~(p.userText = <<>> /\ p.confirm = None)
       /\ creply' = replyOf[p, g1, g2]
       /\ creply'.status = 500
  /\ UNCHANGED <<handlerVars, probe, inflight, reg>>

ComposerNext ==
  \/ MethodNotAllowed
  \/ PostWithoutText
  \/ PostConfirm
  \/ PostComposed
  \/ PostRaises

ComposerSpec == ComposerInit /\ [][ComposerNext]_vars

\* =====================================================================
\* getToolRegistryCached under concurrent calls
\* =====================================================================
\* Time is counted in ticks of two and a half minutes.  A list is the result
\* of one storage read: ok tells whether the read gave rows or an error
\* result (data null, which getToolRegistry turns into []), issued is the
\* time the read was sent.

MaxClock == 4
MaxCalls == 2

\* 5 * 60_000 ms
CacheTtl == 2

CallIds == 1..MaxCalls

NoCache == [set |-> FALSE, data |-> [ok |-> TRUE, issued |-> 0], ts |-> 0]
NotCalling == [pc |-> "idle", now |-> 0, issued |-> 0]
NothingServed == [any |-> FALSE, fromCache |-> FALSE, data |-> [ok |-> TRUE, issued |-> 0], began |-> 0]

\* TOOL_CACHE && now - TOOL_CACHE.ts < 5 * 60_000
cacheFresh(cache, now) == cache.set /\ now - cache.ts < CacheTtl

\* TOOL_CACHE = { data, ts: now }, with the clock at the write at hand
cacheEntryAtWrite(call, data, clock) == [set |-> TRUE, data |-> data, ts |-> clock]

cacheEntry(call, data, clock) == [set |-> TRUE, data |-> data, ts |-> call.now]

Served(data, began, fromCache) ==
  [any |-> TRUE, fromCache |-> fromCache, data |-> data, began |-> began]

CacheInit ==
  /\ HandlerInit
  /\ creply = NoReply
  /\ probe = NoProbe
  /\ inflight = Idle
  /\ reg = [clock |-> 0, cache |-> NoCache, calls |-> [c \in CallIds |-> NotCalling],
            served |-> NothingServed]

Tick ==
  /\ reg.clock < MaxClock
  /\ reg' = [reg EXCEPT !.clock = @ + 1]
  /\ UNCHANGED <<handlerVars, creply, probe, inflight>>

\* a call finds the cache fresh and returns its list
ServeFromCache(c) ==
  /\ reg.calls[c].pc = "idle"
  /\ cacheFresh(reg.cache, reg.clock)
  /\ reg' = [reg EXCEPT !.served = Served(reg.cache.data, reg.clock, TRUE)]
  /\ UNCHANGED <<handlerVars, creply, probe, inflight>>

\* a call finds no fresh cache and sends the storage read
IssueRead(c) ==
  /\ reg.calls[c].pc = "idle"
  /\ ~cacheFresh(reg.cache, reg.clock)
  /\ reg' = [reg EXCEPT !.calls[c] = [pc |-> "reading", now |-> reg.clock, issued |-> reg.clock]]
  /\ UNCHANGED <<handlerVars, creply, probe, inflight>>

\* the read resolves, with rows or with an error result: the call caches and returns the list
ReadResolves(c) ==
  /\ reg.calls[c].pc = "reading"
  /\ \E ok \in BOOLEAN :
       \E data \in {[ok |-> ok, issued |-> reg.calls[c].issued]} :
         reg' = [reg EXCEPT !.cache = cacheEntry(reg.calls[c], data, reg.clock),
                            !.served = Served(data, reg.calls[c].now, FALSE),
                            !.calls[c] = NotCalling]
  /\ UNCHANGED <<handlerVars, creply, probe, inflight>>

\* the read rejects: the call throws before it touches the cache
ReadRejects(c) ==
  /\ reg.calls[c].pc = "reading"
  /\ reg' = [reg EXCEPT !.calls[c] = NotCalling]
  /\ UNCHANGED <<handlerVars, creply, probe, inflight>>

CacheNext ==
  \/ Tick
  \/ \E c \in CallIds : ServeFromCache(c)
  \/ \E c \in CallIds : IssueRead(c)
  \/ \E c \in CallIds : ReadResolves(c)
  \/ \E c \in CallIds : ReadRejects(c)

CacheSpec == CacheInit /\ [][CacheNext]_vars

\* =====================================================================
\* chat_v2.ts handler serving several clients
\* =====================================================================
\* The session_memory table and TOOL_CACHE are shared by all clients; the
\* cookie jar and the transcript are a client's own.  Clients arrive one after
\* the other: a client that arrives holds no cookie and no transcript, and the
\* handler takes its requests as it takes the first client's.  No client sends
\* a user id, so getMem and setMem go by session_id alone.  One client sends its
\* session id in the body, one in the header, two send none.
Clients ==
  { FirstClient, Client("c2", "", "s2"),
    Client("c3", Undefined, Undefined), Client("c4", Undefined, Undefined) }

ClientSessionIds == {sessionIdOf(c) : c \in Clients}

ClientTexts == {<<>>, <<"yes">>, <<"why">>, <<"monthly">>, <<"weekly", "report">>}

ClientEnvs == {e \in Envs : e.impl = "llm-v2" /\ e.spans # 1}

ClientRequests ==
  [text : ClientTexts, sessionId : {sessionIdOf(client)}, history : BOOLEAN, env : ClientEnvs]

\* clients arrive in the order of their ids
arrivesAfter(c, d) ==
  \E i, j \in 1..4 : i > j /\ c.id = <<"c1", "c2", "c3", "c4">>[i]
                            /\ d.id = <<"c1", "c2", "c3", "c4">>[j]

ClientInit ==
  /\ mem = [s \in ClientSessionIds |-> EmptyMem]
  /\ cookie = None
  /\ toolCache = [valid |-> FALSE, data |-> <<>>]
  /\ turn = 0
  /\ resp = NoResponse
  /\ refineLog = NoLog
  /\ client = FirstClient
  /\ creply = NoReply
  /\ probe = NoProbe
  /\ inflight = Idle
  /\ reg = NoReg

\* the next client takes over: empty cookie jar, no transcript
ClientArrives ==
  /\ \E c \in Clients :
       /\ arrivesAfter(c, client)
       /\ client' = c
  /\ cookie' = None
  /\ resp' = NoResponse
  /\ refineLog' = NoLog
  /\ UNCHANGED <<mem, toolCache, turn>>
  /\ UNCHANGED otherVars

ClientNext ==
  \/ \E r \in ClientRequests : BadRequest(r)
  \/ MalformedBody
  \/ \E r \in ClientRequests : FollowAccept(r)
  \/ \E r \in ClientRequests : FollowRefine(r)
  \/ \E r \in ClientRequests : FollowAskInfo(r)
  \/ \E r \in ClientRequests : Raises(r)
  \/ \E r \in ClientRequests : Routed(r)
  \/ CacheExpires
  \/ ClientArrives

ClientSpec == ClientInit /\ [][ClientNext]_vars

\* =====================================================================
\* One turn of chat_v2.ts between its awaits
\* =====================================================================
\* The handler is an async function: at each await it yields until the awaited
\* collaborator call settles (resolves or rejects).  No call is given a
\* timeout, an abort signal or a race against a timer.

CallOrder == <<"registry", "retrieval", "generation">>

inOrder(calls) == SelectSeq(CallOrder, LAMBDA c : c \in calls)

\* the scorer block: the registry read, then the completion when there is a key
scorerAwaits(d0, env, text) ==
  IF alreadyQA(d0) THEN <<>>
  ELSE <<"registry">> \o (IF scorerCallsLLM(env.hasKey, text) THEN <<"generation">> ELSE <<>>)

\* the agent block: QaAgent retrieves when the router gave no spans; the coach
\* path retrieves grounding once or twice before CoachAgent's completion
agentAwaits(d, env) ==
  IF d.route = "qa" THEN inOrder(agentOut(d, env).calls)
  ELSE <<"retrieval">> \o (IF env.ground = 0 THEN <<"retrieval">> ELSE <<>>) \o <<"generation">>

\* the calls a routed turn awaits, in order: getMem, pickRoute's calls, the
\* scorer's, the agent's, and the writes of setMem and logMessage
awaitsOf(text, env) ==
  LET d0 == pickRoute(env.impl, text, <<>>, env)
      d  == applyScorer(d0, env, text)
  IN  <<"memory">> \o inOrder(d0.calls)
        \o (IF d0.threw THEN <<>>
            ELSE scorerAwaits(d0, env, text) \o agentAwaits(d, env) \o <<"memory">>)

Awaiting(text, env, waits, settled) ==
  [busy |-> TRUE, text |-> text, env |-> env, waits |-> waits, settled |-> settled]

LiveInit ==
  /\ HandlerInit
  /\ creply = NoReply
  /\ probe = NoProbe
  /\ inflight = Idle
  /\ reg = NoReg

\* a POST with user text arrives and the handler runs to its first await
Receive ==
  /\ ~inflight.busy
  /\ \E text \in UserTexts, env \in Envs :
       /\ ~noUserText(text)
       /\ inflight' = Awaiting(text, env, awaitsOf(text, env), FALSE)
  /\ UNCHANGED <<handlerVars, creply, probe, reg>>

\* the storage service answers the pending read or write
StorageSettles ==
  /\ inflight.busy /\ inflight.waits # <<>> /\ ~inflight.settled
  /\ Head(inflight.waits) \in {"memory", "registry"}
  /\ inflight' = [inflight EXCEPT !.settled = TRUE]
  /\ UNCHANGED <<handlerVars, creply, probe, reg>>

\* the embedding, search or completion request in flight gets its answer
CallSettles ==
  /\ inflight.busy /\ inflight.waits # <<>> /\ ~inflight.settled
  /\ Head(inflight.waits) \in {"retrieval", "generation"}
  /\ inflight' = [inflight EXCEPT !.settled = TRUE]
  /\ UNCHANGED <<handlerVars, creply, probe, reg>>

\* the event loop resumes the handler, which runs to its next await
Resumes ==
  /\ inflight.busy /\ inflight.waits # <<>> /\ inflight.settled
  /\ inflight' = [inflight EXCEPT !.waits = Tail(inflight.waits), !.settled = FALSE]
  /\ UNCHANGED <<handlerVars, creply, probe, reg>>

\* nothing left to await: the handler returns its response
Returns ==
  /\ inflight.busy /\ inflight.waits = <<>>
  /\ inflight' = Idle
  /\ UNCHANGED <<handlerVars, creply, probe, reg>>

LiveNext ==
  \/ Receive
  \/ StorageSettles
  \/ CallSettles
  \/ Resumes
  \/ Returns

\* The event loop runs a handler whose awaited call has settled, and the
\* storage service answers; whether a retrieval or generation call ever
\* settles is left open.
LiveSpec ==
  /\ LiveInit
  /\ [][LiveNext]_vars
  /\ WF_vars(StorageSettles)
  /\ WF_vars(Resumes)
  /\ WF_vars(Returns)

\* =====================================================================
\* Properties
\* =====================================================================
Session == "s1"

\* the last turn went past the 400 check
Handled == resp.status # 0 /\ resp.trace.path # "400"

Succeeded == resp.status = 200

TryCount(body) == Cardinality({ i \in DOMAIN body : isTry(body[i]) })

\* the registry row with this slug
toolBySlug(slug) == FindFirst(SelectSeq(Registry, LAMBDA t : t.slug = slug))

\* a line the deployment must not return, judged against the titles of the whole
\* registry: a Try line for something that is not an internal tool, or any other
\* line recommending an external product
ExternalMention(ln) ==
  IF isTry(ln) THEN ~isAllowedTitle(ln.v, buildAllowlist(Registry))
  ELSE isExternalToolLine(ln, buildAllowlist(Registry))

RouterCalls == {"router", "retrieval", "generation"}

\* ---------------------------------------------------------------------
\* C1
\* ---------------------------------------------------------------------
\* the accept turn's reply: route tools, the plan and Try line of the stored slug
\* with the stored params, nothing but the registry consulted
AcceptReply ==
  /\ resp.status = 200
  /\ resp.trace.path = "accept"
  /\ resp.route = "tools"
  /\ resp.recoSlug = resp.trace.storedSlug
  /\ resp.body = planWithTry(toolBySlug(resp.trace.storedSlug), storedParams(mem, Session))
  /\ TryCount(resp.body) = 1
  /\ \E i \in DOMAIN resp.body :
       isTry(resp.body[i]) /\ resp.body[i].v = toolBySlug(resp.trace.storedSlug).title
  /\ resp.trace.calls \cap RouterCalls = {}

\* C1 as stated: whenever the session's stored state holds a proposed tool slug
\* and the turn's text is classified accept, the turn returns route=tools with
\* the plan and Try line of that slug and calls no Router, retrieval or generation.
C1_AcceptShortCircuit_AsStated ==
  (Handled /\ resp.trace.storedSlug # None /\ resp.trace.follow = "accept") => AcceptReply

\* C1 amended: the same, for a stored slug that is found in the tool registry
\* list the turn reads.
C1_AcceptShortCircuit ==
  (/\ Handled
   /\ resp.trace.storedSlug # None
   /\ resp.trace.storedSlug \in resp.trace.toolSlugs
   /\ resp.trace.follow = "accept") => AcceptReply

\* an accept turn on a stored slug was answered from the registry alone
C1_Witness ==
  /\ resp.trace.storedSlug = "daily-checklist"
  /\ resp.trace.follow = "accept"
  /\ resp.trace.path = "accept"
  /\ resp.recoSlug = "daily-checklist"

\* ---------------------------------------------------------------------
\* C2
\* ---------------------------------------------------------------------
\* C2: the final text of every successful turn holds no external tool mention.
C2_NoExternalMention ==
  Succeeded => \A i \in DOMAIN resp.body : ~ExternalMention(resp.body[i])

\* ---------------------------------------------------------------------
\* C3
\* ---------------------------------------------------------------------
\* C3: the final text of every successful turn has at most one Try line, and
\* has one only when the response carries a reco slug.
C3_AtMostOneTry ==
  Succeeded =>
    /\ TryCount(resp.body) <= 1
    /\ (TryCount(resp.body) >= 1 => resp.recoSlug # None)

\* ---------------------------------------------------------------------
\* C4
\* ---------------------------------------------------------------------
\* C4: for a text matching the media-request pattern, route() never returns tools.
C4_RouterMediaNeverTools ==
  (Handled /\ routerMediaAsk(resp.trace.text)) => resp.trace.routerRoute # "tools"

\* ---------------------------------------------------------------------
\* C5
\* ---------------------------------------------------------------------
\* C5: a media request that is not a follow-up accept is never answered with
\* route=tools, nor with a Try line in the text.
C5_MediaNeverTools ==
  (Succeeded /\ isMediaAsk(resp.trace.text) /\ resp.trace.path # "accept") =>
    /\ resp.route # "tools"
    /\ TryCount(resp.body) = 0

\* ---------------------------------------------------------------------
\* C6
\* ---------------------------------------------------------------------
\* the last turn was a reject on a proposed tool, and offered no tool again
RejectedLastTurn ==
  /\ Succeeded
  /\ resp.trace.follow = "reject"
  /\ resp.trace.proposedSlug # None
  /\ resp.recoSlug = None
  /\ TryCount(resp.body) = 0

\* C6: after a reject turn on a proposed tool that offers no tool again, the
\* session's next turn resolves no proposed tool.
C6_RejectForgetsTool ==
  [][(RejectedLastTurn /\ turn' = turn + 1) => resp'.trace.proposedSlug = None]_vars

\* ---------------------------------------------------------------------
\* C7
\* ---------------------------------------------------------------------
\* the right-biased merge of deltas over base: per field, the last delta in turn
\* order that mentions the field, else the base value
RightBiased(base, deltas) ==
  [f \in ParamFields |->
     LET said == { i \in DOMAIN deltas : deltas[i][f] # None }
     IN  IF said = {} THEN base[f]
         ELSE deltas[CHOOSE i \in said : \A j \in said : j <= i][f]]

matchesFamily(family, text) ==
  IF family = "accept" THEN isAffirmativeFollowUp(text)
  ELSE IF family = "reject" THEN isNegativeFollowUp(text)
  ELSE IF family = "refine" THEN HasParams(parseRefineParams(text))
  ELSE IF family = "askinfo" THEN isInfoFollowUp(text)
  ELSE isCompareFollowUp(text)

\* the first family of order that the text matches, none when no family matches
firstFamily(order, text) ==
  IF \E i \in DOMAIN order : matchesFamily(order[i], text)
  THEN order[CHOOSE i \in DOMAIN order :
               /\ matchesFamily(order[i], text)
               /\ \A j \in 1..(i - 1) : ~matchesFamily(order[j], text)]
  ELSE "none"

\* C9 as stated: the classification is the first matching family in the order
\* accept, reject, refine, askinfo, compare.
C9_Priority_AsStated ==
  Handled =>
    resp.trace.follow
      = firstFamily(<<"accept", "reject", "refine", "askinfo", "compare">>, resp.trace.text)

\* C9 amended: the classification is the first matching family in the order
\* accept, reject, askinfo, compare, refine, and none when no family matches.
C9_Priority ==
  Handled =>
    resp.trace.follow
      = firstFamily(<<"accept", "reject", "askinfo", "compare", "refine">>, resp.trace.text)

\* a text matching both the refine and the askinfo family was classified
C9_Witness ==
  /\ Handled
  /\ matchesFamily("refine", resp.trace.text)
  /\ matchesFamily("askinfo", resp.trace.text)
  /\ resp.trace.follow = "askinfo"

\* ---------------------------------------------------------------------
\* C10
\* ---------------------------------------------------------------------
\* C10: a response carries reco=true only if the turn's text was classified accept.
C10_RecoOnlyAfterAccept ==
  resp.reco = "true" => resp.trace.follow = "accept"

\* ---------------------------------------------------------------------
\* C11
\* ---------------------------------------------------------------------
\* C11: a turn with valid user text during which a collaborator (registry
\* read, retrieval, embedding, generation) failed is still answered with
\* status 200, never 500.
C11_FailuresDegrade ==
  (Handled /\ resp.trace.failed # {}) => resp.status = 200

\* ---------------------------------------------------------------------
\* C12
\* ---------------------------------------------------------------------
\* C12: route() never raises into the handler, whatever the registry read,
\* the retrieval and the scorer do.
C12_RouterNeverRaises ==
  Handled => resp.trace.raised # "router"

\* ---------------------------------------------------------------------
\* C15
\* ---------------------------------------------------------------------
\* C15: every 200 response has non-empty text: at least one line that is not blank.
C15_NonEmptyText ==
  Succeeded => \E i \in DOMAIN resp.body : ~isBlank(resp.body[i])

\* ---------------------------------------------------------------------
\* C16
\* ---------------------------------------------------------------------
\* C16: a request from which no user text can be resolved is answered 400, and
\* during it no collaborator is called and no state (session memory, cookie,
\* registry cache) is written.
C16_MissingTextIs400 ==
  [][(turn' = turn + 1 /\ resp'.trace.text = <<>>) =>
       /\ resp'.status = 400
       /\ resp'.trace.calls = {}
       /\ resp'.body = <<>>
       /\ UNCHANGED <<mem, cookie, toolCache>>]_vars

\* ---------------------------------------------------------------------
\* C17
\* ---------------------------------------------------------------------
\* C17: within one turn of the policy handler no collaborator operation is
\* attempted a second time after a failed or empty first attempt.
C17_NoReattempt ==
  Handled => resp.trace.retried = {}

\* ---------------------------------------------------------------------
\* C13
\* ---------------------------------------------------------------------
\* C13: whenever the storage read fails (error result or rejected call), the
\* registry read does not raise and returns the empty list.
C13_RegistryReadNeverRaises ==
  (probe.fn = "getToolRegistry" /\ probe.done /\ probe.outcome # "ok") =>
    (~probe.out.threw /\ probe.out.items = <<>>)

\* ---------------------------------------------------------------------
\* C19
\* ---------------------------------------------------------------------
\* the tools of the list that reach the score s or more
reaching(text, tools, s) ==
  { i \in DOMAIN tools : ~FracLess(intentScore(text, tools[i]), s) }

\* C19: matchToolByIntent returns none when no tool of the list reaches the
\* floor; otherwise it returns the first tool in registry order among those
\* whose score is the maximum over the list.
C19_IntentMatch ==
  (probe.fn = "matchToolByIntent" /\ probe.done) =>
    LET text == probe.text
        tools == probe.tools
        atFloor == reaching(text, tools, [num |-> IntentScoreFloor, den |-> 1])
        top == { i \in DOMAIN tools :
                   \A j \in DOMAIN tools :
                     ~FracLess(intentScore(text, tools[i]), intentScore(text, tools[j])) }
    IN  IF atFloor = {} THEN probe.out = NoTool
        ELSE /\ top # {}
             /\ probe.out = tools[CHOOSE i \in top : \A j \in top : i <= j]

\* two tools tie at the maximum, at or above the floor, and the first was returned
C19_Witness ==
  /\ probe.fn = "matchToolByIntent"
  /\ probe.done
  /\ probe.out.slug # None
  /\ \E i, j \in DOMAIN probe.tools :
       /\ i < j
       /\ probe.out = probe.tools[i]
       /\ probe.tools[i] # probe.tools[j]
       /\ ~FracLess(intentScore(probe.text, probe.tools[i]), intentScore(probe.text, probe.tools[j]))
       /\ ~FracLess(intentScore(probe.text, probe.tools[j]), intentScore(probe.text, probe.tools[i]))

\* ---------------------------------------------------------------------
\* C20
\* ---------------------------------------------------------------------
flagless(row) == \A i \in DOMAIN FlagColumns : row.flags[i] = "absent"

resolves(row) ==
  /\ row.title # <<>> \/ row.tool_name # <<>>
  /\ row.slug # "" \/ kebab(IF row.title # <<>> THEN row.title ELSE row.tool_name) # ""

\* C20: a row with none of the enabled-flag columns present normalizes to
\* enabled = true when its title and slug resolve, and the flexible registry
\* reads include it in the list they return.
C20_FlaglessRowEnabled ==
  /\ (probe.fn = "normalizeToolRow" /\ probe.done /\ flagless(probe.row)) =>
       IF resolves(probe.row) THEN ~probe.out.null /\ probe.out.enabled
       ELSE probe.out.null
  /\ (/\ probe.fn = "getToolRegistry"
      /\ probe.done
      /\ probe.impl # "lib/tools.ts"
      /\ probe.outcome = "ok") =>
       \A i \in DOMAIN probe.rows :
         (flagless(probe.rows[i]) /\ resolves(probe.rows[i])) =>
           \E k \in DOMAIN probe.out.items :
             /\ probe.out.items[k].enabled
             /\ probe.out.items[k].title
                  = (IF probe.rows[i].title # <<>> THEN probe.rows[i].title
                     ELSE probe.rows[i].tool_name)

\* a row without flag columns, titled by tool_name, its slug made from the
\* title, came out enabled
C20_Witness ==
  /\ probe.fn = "normalizeToolRow"
  /\ probe.done
  /\ flagless(probe.row)
  /\ probe.row.title = <<>>
  /\ probe.row.slug = ""
  /\ ~probe.out.null
  /\ probe.out.enabled
  /\ probe.out.slug = "daily-checklist"
\* C14: when the generation backend's content for a composeReply call is not
\* parseable JSON, the turn still completes with status 200, and when that
\* call was the turn's last one the text is the safe default message.
C14_UnparseableFallsBack ==
  (/\ creply.status # 0
   /\ \E i \in DOMAIN creply.trace.calls : creply.trace.calls[i] = "composeReply"
   /\ \E i \in DOMAIN creply.trace.raw : creply.trace.raw[i] = Unparseable)
    => /\ creply.status = 200
       /\ creply.trace.raw[Len(creply.trace.raw)] = Unparseable => creply.text = GotIt

\* C18: every turn eventually returns a response, even when a retrieval or
\* generation call of the turn never completes.
C18_EveryTurnReturns == inflight.busy ~> ~inflight.busy

\* the first value of a list of fields that is present and not blank
firstNonEmpty(vals) ==
  IF SelectSeq(vals, LAMBDA v : v # Undefined /\ strTrim(v) # "") = <<>> THEN ""
  ELSE strTrim(Head(SelectSeq(vals, LAMBDA v : v # Undefined /\ strTrim(v) # "")))

lastUserContent(messages) ==
  LET users == SelectSeq(messages, LAMBDA x : x.role = "user")
  IN  IF users = <<>> \/ users[Len(users)].content = Undefined THEN ""
      ELSE strTrim(users[Len(users)].content)

\* C21: the user text is the first non-empty value among q and its alias
\* fields; when none is non-empty, the last user-role message; when that is
\* absent, the first non-empty nested data field; otherwise the empty string.
C21_UserTextResolution ==
  (probe.fn = "extractUserText" /\ probe.done) =>
    probe.out = IF firstNonEmpty(probe.body.direct) # "" THEN firstNonEmpty(probe.body.direct)
                ELSE IF lastUserContent(probe.body.messages) # ""
                  THEN lastUserContent(probe.body.messages)
                ELSE firstNonEmpty(probe.body.data)

\* C22: no line of the sanitizer's output has both a hint word and a
\* brand-like candidate that is not on the allow-list.
C22_SanitizedHasNoExternalLine ==
  (probe.fn = "sanitizeNeutralGuidance" /\ probe.done) =>
    \A i \in DOMAIN probe.out :
       ~(/\ probe.out[i].hint
         /\ \E b \in probe.out[i].brands : ~isAllowedTitle(b, probe.allow))

\* a text with an external line, an allowed line and list items was sanitized,
\* and something is left of it
C22_Witness ==
  /\ probe.fn = "sanitizeNeutralGuidance" /\ probe.done
  /\ probe.allow # {}
  /\ \E i \in DOMAIN probe.lines : probe.lines[i] = NumExt
  /\ \E i \in DOMAIN probe.lines : probe.lines[i] = OwnLine
  /\ \E i \in DOMAIN probe.out : probe.out[i] = OwnLine
  /\ Len(probe.out) < Len(probe.lines)

\* C23: renumbering is idempotent: renumbering the renumbered text changes nothing.
C23_RenumberIdempotent ==
  (probe.fn = "renumberOrderedLists" /\ probe.done) => probe.again = probe.out

\* a text whose numbering was wrong was renumbered
C23_Witness ==
  /\ probe.fn = "renumberOrderedLists" /\ probe.done
  /\ probe.out # probe.lines
  /\ \E i \in DOMAIN probe.lines : probe.lines[i] = NumLine(3)

\* line i lies between an opening fence and its closing fence
insideFence(text, i) ==
  /\ text[i].k # "fence"
  /\ Cardinality({ j \in 1..(i - 1) : text[j].k = "fence" }) % 2 = 1
  /\ \E j \in (i + 1)..Len(text) : text[j].k = "fence"

\* C24: renumberOrderedLists leaves every line of a fenced code block as it
\* was, numbered-looking lines included.
C24_FencedBlocksUntouched ==
  (probe.fn = "renumberOrderedLists" /\ probe.done /\ probe.impl = "part_007") =>
    /\ Len(probe.out) = Len(probe.lines)
    /\ \A i \in DOMAIN probe.lines : insideFence(probe.lines, i) => probe.out[i] = probe.lines[i]

\* the decision after the scorer differs from the one computed before it
replaced(o) ==
  o.final.route # o.det.route \/ o.final.best_tool_slug # o.det.best_tool_slug

\* C25: the scorer's decision replaces the router's only when its intent
\* score is at or above the threshold and neither the media guard nor a QA hit
\* with spans has decided the route; when the scorer fails, the decision
\* already computed is kept.
C25_ScorerReplacesOnlyWhenConfident ==
  (probe.fn \in {"applyScorer", "route"} /\ probe.done) =>
    /\ replaced(probe.out) =>
         /\ scoreOrZero(probe.out.scored) >= ScorerThreshold
         /\ ~alreadyQA(probe.out.det)
         /\ ~(probe.env.impl = "qa-first-v2" /\ routerMediaAsk(probe.text))
    /\ ~probe.out.scored.ok => ~replaced(probe.out)

\* C26: under any interleaving of getToolRegistryCached calls, a list served
\* from the cache comes from a storage read issued less than the TTL before
\* the serving call began.
C26_ServedListIsFresh ==
  (reg.clock >= 0 /\ reg.served.any /\ reg.served.fromCache) =>
    reg.served.began - reg.served.data.issued < CacheTtl

\* two calls missed the cache together, the earlier read resolved last and
\* overwrote the entry of the later one, and that entry was then served
C26_Witness ==
  /\ reg.served.any /\ reg.served.fromCache
  /\ reg.served.began > reg.served.data.issued
  /\ \E c \in CallIds : reg.calls[c].pc = "reading" /\ reg.calls[c].issued > reg.served.data.issued

\* C27: a failed storage read does not populate the cache: no call is served
\* from the cache the list of a failed read.
C27_FailedReadNotCached ==
  (reg.served.any /\ reg.served.fromCache) => reg.served.data.ok

\* ---------------------------------------------------------------------
\* C28: every reco slug a response carries (X-Reco-Slug) is the slug of a tool
\* in the enabled registry list the turn used; a slug held by the scorer's
\* decision or by session memory that names no tool of that list is not returned
\* ---------------------------------------------------------------------
C28_RecoSlugIsRegistryTool ==
  resp.recoSlug # None => resp.recoSlug \in resp.trace.toolSlugs

\* a routed turn whose accepted scorer decision named a slug outside the list,
\* answered with a tool of the list
C28_Witness ==
  /\ resp.status = 200
  /\ resp.trace.decisionSlug # None
  /\ resp.trace.decisionSlug \notin resp.trace.toolSlugs
  /\ resp.recoSlug \in resp.trace.toolSlugs

\* ---------------------------------------------------------------------
\* C29: the stored params belong to the stored proposed slug: a routed turn that
\* stores a proposal for another tool than the one stored before, or that
\* rejected the stored proposal and proposes a tool again, stores (and renders)
\* none of the earlier proposal's params
\* ---------------------------------------------------------------------
\* the policy step of this step replaced the stored proposal of session s
proposesAnew(s) ==
  /\ resp'.trace.path = "routed"
  /\ mem[s].proposed.has
  /\ mem'[s].proposed.has
  /\ \/ mem'[s].proposed.slug # mem[s].proposed.slug
     \/ resp'.trace.follow = "reject"

C29_ParamsBelongToProposedTool ==
  [][\A s \in SessionIds :
       proposesAnew(s) =>
         \A f \in ParamFields :
           mem[s].proposed.params[f] # None => mem'[s].proposed.params[f] = None]_vars

\* ---------------------------------------------------------------------
\* C30: proposed-tool state is isolated per client: a client's first request,
\* sent with no cookie and no transcript, is never answered as the acceptance of
\* a proposed tool, whether or not the client sends a session id
\* ---------------------------------------------------------------------
C30_ProposalIsolatedPerClient ==
  [][resp.status = 0 => resp'.trace.path # "accept"]_vars
====
